---------------------------- MODULE Spec2Model ----------------------------
(***************************************************************************)
(* Model of the transcript analysis agent of Zero-Click-CRM:               *)
(*   backend/app/services/crm_agent.py      (CRMAgent)                     *)
(*   backend/app/services/ai_extraction.py  (AIExtractionService)          *)
(*   backend/app/schemas/crm.py             (ExtractedData)                *)
(*                                                                         *)
(* Text is modelled by TLA+ strings, character by character: substring     *)
(* tests, substring counts, lower-casing, splitting, stripping and the     *)
(* regular expressions of the source are computed on the characters of     *)
(* the transcript, the way Python computes them.                           *)
(***************************************************************************)
EXTENDS Integers, Sequences, FiniteSets, TLC

(***************************************************************************)
(* Python's None.                                                          *)
(***************************************************************************)
None == "<None>"

(***************************************************************************)
(* Characters.                                                             *)
(***************************************************************************)
Upper == "ABCDEFGHIJKLMNOPQRSTUVWXYZ"
Lowers == "abcdefghijklmnopqrstuvwxyz"
Digits == "0123456789"

CharsOf(str) == { SubSeq(str, i, i) : i \in 1..Len(str) }

UpperSet == CharsOf(Upper)
LowerSet == CharsOf(Lowers)
DigitSet == CharsOf(Digits)
SpaceSet == {" ", "\n", "\t", "\r"}
WordSet == UpperSet \cup LowerSet \cup DigitSet \cup {"_"}

LowerOf == [c \in UpperSet |->
              LET i == CHOOSE k \in 1..Len(Upper) : SubSeq(Upper, k, k) = c
              IN  SubSeq(Lowers, i, i)]
UpperOf == [c \in LowerSet |->
              LET i == CHOOSE k \in 1..Len(Lowers) : SubSeq(Lowers, k, k) = c
              IN  SubSeq(Upper, i, i)]

LowerChar(c) == IF c \in UpperSet THEN LowerOf[c] ELSE c
UpperChar(c) == IF c \in LowerSet THEN UpperOf[c] ELSE c

At(s, i) == SubSeq(s, i, i)

(***************************************************************************)
(* Python str methods.  The loops over the characters of a text are        *)
(* written with sets of positions, not by recursion over the text.         *)
(***************************************************************************)
\* min(S) of a non-empty set of numbers
Min(S) == CHOOSE x \in S : \A y \in S : x <= y

RECURSIVE lower_range(_, _, _)
lower_range(s, i, j) ==
    IF i > j THEN ""
    ELSE IF i = j THEN LowerChar(At(s, i))
    ELSE LET m == (i + j) \div 2
         IN  lower_range(s, i, m) \o lower_range(s, m + 1, j)

\* str.lower()
lower(s) == lower_range(s, 1, Len(s))

\* s[i:i+len(sub)] == sub, i counted from 1
StartsAt(s, sub, i) ==
    /\ i >= 1
    /\ i + Len(sub) - 1 <= Len(s)
    /\ SubSeq(s, i, i + Len(sub) - 1) = sub

\* the positions at which sub occurs in s
Occurrences(s, sub) == { i \in 1..(Len(s) - Len(sub) + 1) : StartsAt(s, sub, i) }

\* sub in s
contains(s, sub) == \E i \in 1..(Len(s) - Len(sub) + 1) : StartsAt(s, sub, i)

\* the occurrences a scan from the left finds: each starts at or after the
\* end of the one before
RECURSIVE scan(_, _, _)
scan(occ, width, from) ==
    LET rest == { i \in occ : i >= from }
    IN  IF rest = {} THEN << >>
        ELSE << Min(rest) >> \o scan(rest, width, Min(rest) + width)

\* str.count(sub): the non-overlapping occurrences, left to right
count(s, sub) == Len(scan(Occurrences(s, sub), Len(sub), 1))

\* s[:n]
Prefix(s, n) == IF Len(s) > n THEN SubSeq(s, 1, n) ELSE s

\* seq[:n]
Take(seq, n) == IF Len(seq) > n THEN SubSeq(seq, 1, n) ELSE seq

\* str.strip()
strip(s) ==
    LET kept == { i \in 1..Len(s) : At(s, i) \notin SpaceSet }
    IN  IF kept = {} THEN ""
        ELSE SubSeq(s, Min(kept), CHOOSE j \in kept : \A k \in kept : k <= j)

\* the pieces of s between the separators at the positions seps, each width wide
pieces(s, seps, width) ==
    [k \in 1..(Len(seps) + 1) |->
        SubSeq(s, IF k = 1 THEN 1 ELSE seps[k - 1] + width,
                  IF k > Len(seps) THEN Len(s) ELSE seps[k] - 1)]

\* str.split(sep)
split(s, sep) == pieces(s, scan(Occurrences(s, sep), Len(sep), 1), Len(sep))

RECURSIVE join_from(_, _, _)
join_from(sep, seq, k) ==
    IF k > Len(seq) THEN ""
    ELSE IF k = Len(seq) THEN seq[k]
    ELSE seq[k] \o sep \o join_from(sep, seq, k + 1)

\* sep.join(seq)
join(sep, seq) == join_from(sep, seq, 1)

\* str.replace(old, new)
replace(s, old, new) == join(new, split(s, old))

\* any(word in s for word in words), words a sequence of strings
any_in(s, words) == \E k \in 1..Len(words) : contains(s, words[k])

(***************************************************************************)
(* Python's re: a pattern is a sequence of segments, each a syntax tree;   *)
(* a capture group is a segment.  The subject u of a match is the text     *)
(* u.s, its lower-cased copy u.l and the flag u.ic (re.IGNORECASE).        *)
(* Ends(r, u, i) lists, in the order in which the backtracking matcher     *)
(* tries them, the positions at which a match of r that starts at          *)
(* position i can end.                                                     *)
(***************************************************************************)
Lit(str) == [t |-> "lit", s |-> str, l |-> lower(str)]
\* the characters that match one of cs when case is ignored
CaseImages(cs) == cs \cup { LowerChar(c) : c \in cs } \cup { UpperChar(c) : c \in cs }

\* [cs] and [^cs]; ci is what the class holds under re.IGNORECASE
Set(cs) == [t |-> "set", cs |-> cs, ci |-> CaseImages(cs), neg |-> FALSE]
NotSet(cs) == [t |-> "set", cs |-> cs, ci |-> CaseImages(cs), neg |-> TRUE]
Cat(rs) == [t |-> "cat", rs |-> rs]
Alt(rs) == [t |-> "alt", rs |-> rs]
\* r{lo,hi}, greedy; hi = -1 is "no upper limit"
Rep(r, lo, hi) == [t |-> "rep", r |-> r, lo |-> lo, hi |-> hi]
Plus(r) == Rep(r, 1, -1)
Star(r) == Rep(r, 0, -1)
Opt(r) == Rep(r, 0, 1)
\* \b
WordB == [t |-> "wb"]

Subject(s, ic) == [s |-> s, l |-> IF ic THEN lower(s) ELSE s, ic |-> ic]

InClass(c, r, ic) == (c \in (IF ic THEN r.ci ELSE r.cs)) # r.neg

LitAt(u, r, i) ==
    /\ i + Len(r.s) - 1 <= Len(u.s)
    /\ IF u.ic THEN SubSeq(u.l, i, i + Len(r.s) - 1) = r.l
               ELSE SubSeq(u.s, i, i + Len(r.s) - 1) = r.s

IsWordAt(s, i) == i >= 1 /\ i <= Len(s) /\ At(s, i) \in WordSet

\* the length of the longest run of characters of the class r from position i,
\* at most max characters when max # -1
RunLen(u, i, r, max) ==
    LET last == IF max = -1 \/ i + max - 1 > Len(u.s) THEN Len(u.s) ELSE i + max - 1
        stop == CHOOSE j \in i..(last + 1) :
                    /\ j = last + 1 \/ ~InClass(At(u.s, j), r, u.ic)
                    /\ \A k \in i..(j - 1) : InClass(At(u.s, k), r, u.ic)
    IN  stop - i

RECURSIVE Ends(_, _, _)
RECURSIVE CatEnds(_, _, _, _)
RECURSIVE CatOver(_, _, _, _, _, _)
RECURSIVE AltEnds(_, _, _, _)
RECURSIVE RepEnds(_, _, _, _)
RECURSIVE RepOver(_, _, _, _, _, _)

Ends(r, u, i) ==
    CASE r.t = "lit" -> IF LitAt(u, r, i) THEN << i + Len(r.s) >> ELSE << >>
      [] r.t = "set" -> IF i <= Len(u.s) /\ InClass(At(u.s, i), r, u.ic)
                        THEN << i + 1 >> ELSE << >>
      [] r.t = "wb"  -> IF IsWordAt(u.s, i - 1) # IsWordAt(u.s, i)
                        THEN << i >> ELSE << >>
      [] r.t = "cat" -> CatEnds(r.rs, 1, u, i)
      [] r.t = "alt" -> AltEnds(r.rs, 1, u, i)
      [] r.t = "rep" ->
           IF r.r.t = "set"
           THEN \* a repeated class: the longest run first, then one less, ...
                LET run(n) == IF n < r.lo THEN << >>
                              ELSE [k \in 1..(n - r.lo + 1) |-> i + n - (k - 1)]
                IN  run(RunLen(u, i, r.r, r.hi))
           ELSE RepEnds(r, u, i, 0)

CatEnds(rs, k, u, i) ==
    IF k > Len(rs) THEN << i >>
    ELSE LET rest(es) == CatOver(rs, k, u, es, 1, Len(es)) IN rest(Ends(rs[k], u, i))

\* the rest of the concatenation from each of es[lo..hi], in order
CatOver(rs, k, u, es, lo, hi) ==
    IF lo > hi THEN << >>
    ELSE IF lo = hi THEN CatEnds(rs, k + 1, u, es[lo])
    ELSE LET mid == (lo + hi) \div 2
         IN  CatOver(rs, k, u, es, lo, mid) \o CatOver(rs, k, u, es, mid + 1, hi)

AltEnds(rs, k, u, i) ==
    IF k > Len(rs) THEN << >>
    ELSE Ends(rs[k], u, i) \o AltEnds(rs, k + 1, u, i)

\* n repetitions matched so far, the next one starts at i
RepEnds(r, u, i, n) ==
    LET more(es) == IF r.hi = -1 \/ n < r.hi
                    THEN RepOver(r, u, es, 1, Len(es), n + 1)
                    ELSE << >>
        here == IF n >= r.lo THEN << i >> ELSE << >>
    IN  more(Ends(r.r, u, i)) \o here

\* further repetitions from each of es[lo..hi], in order
RepOver(r, u, es, lo, hi, n) ==
    IF lo > hi THEN << >>
    ELSE IF lo = hi THEN RepEnds(r, u, es[lo], n)
    ELSE LET mid == (lo + hi) \div 2
         IN  RepOver(r, u, es, lo, mid, n) \o RepOver(r, u, es, mid + 1, hi, n)

(***************************************************************************)
(* A match is the sequence of the boundaries of the segments: b[1] is the  *)
(* start, b[k+1] the position after segment k.  <<>> is "no match".        *)
(***************************************************************************)
RECURSIVE TrySegs(_, _, _, _, _)
RECURSIVE TryEnds(_, _, _, _, _, _, _)

TrySegs(segs, k, u, i, acc) ==
    IF k > Len(segs) THEN acc
    ELSE LET rest(es) == TryEnds(segs, k, u, es, 1, Len(es), acc)
         IN  rest(Ends(segs[k], u, i))

\* the first of es[lo..hi] from which the rest of the pattern matches
TryEnds(segs, k, u, es, lo, hi, acc) ==
    IF lo > hi THEN << >>
    ELSE IF lo = hi THEN TrySegs(segs, k + 1, u, es[lo], Append(acc, es[lo]))
    ELSE LET mid == (lo + hi) \div 2
             or_else(m) == IF m # << >> THEN m
                           ELSE TryEnds(segs, k, u, es, mid + 1, hi, acc)
         IN  or_else(TryEnds(segs, k, u, es, lo, mid, acc))

\* pattern.match(s, pos)
MatchAt(segs, u, i) == TrySegs(segs, 1, u, i, << i >>)

\* the text of segment k of the match m
Group(s, m, k) == SubSeq(s, m[k], m[k + 1] - 1)

\* the whole match: m.group(0)
Group0(s, m) == SubSeq(s, m[1], m[Len(m)] - 1)

\* the characters a match can start with: cs, or any character when any is
\* true; nullable when the match can be empty

RECURSIVE FirstOf(_, _)
RECURSIVE FirstOfSeq(_, _, _)
RECURSIVE FirstOfAlt(_, _, _)

FirstOf(r, ic) ==
    CASE r.t = "lit" -> [cs |-> IF ic THEN CaseImages({At(r.s, 1)}) ELSE {At(r.s, 1)},
                         any |-> FALSE, nullable |-> r.s = ""]
      [] r.t = "set" -> [cs |-> IF ic THEN r.ci ELSE r.cs,
                         any |-> r.neg, nullable |-> FALSE]
      [] r.t = "wb"  -> [cs |-> {}, any |-> FALSE, nullable |-> TRUE]
      [] r.t = "cat" -> FirstOfSeq(r.rs, 1, ic)
      [] r.t = "alt" -> FirstOfAlt(r.rs, 1, ic)
      [] r.t = "rep" -> [FirstOf(r.r, ic) EXCEPT !.nullable = @ \/ r.lo = 0]

FirstOfSeq(rs, k, ic) ==
    IF k > Len(rs) THEN [cs |-> {}, any |-> FALSE, nullable |-> TRUE]
    ELSE LET both(f, g) == [cs |-> f.cs \cup g.cs, any |-> f.any \/ g.any,
                             nullable |-> g.nullable]
             first(f) == IF ~f.nullable THEN f ELSE both(f, FirstOfSeq(rs, k + 1, ic))
         IN  first(FirstOf(rs[k], ic))

FirstOfAlt(rs, k, ic) ==
    IF k > Len(rs) THEN [cs |-> {}, any |-> FALSE, nullable |-> FALSE]
    ELSE LET both(f, g) == [cs |-> f.cs \cup g.cs, any |-> f.any \/ g.any,
                             nullable |-> f.nullable \/ g.nullable]
         IN  both(FirstOf(rs[k], ic), FirstOfAlt(rs, k + 1, ic))

\* the literals every match holds
RECURSIVE Required(_)
RECURSIVE RequiredOfSeq(_, _)

Required(r) ==
    CASE r.t = "lit" -> {r}
      [] r.t = "cat" -> RequiredOfSeq(r.rs, 1)
      [] r.t = "rep" -> IF r.lo = 0 THEN {} ELSE Required(r.r)
      [] OTHER -> {}

RequiredOfSeq(rs, k) ==
    IF k > Len(rs) THEN {} ELSE Required(rs[k]) \cup RequiredOfSeq(rs, k + 1)

\* the positions at which the pattern matches: none when the text lacks a
\* literal every match holds; else only a position that holds a character a
\* match can start with is tried
MatchStarts(segs, u) ==
    LET tried(f) == IF f.any \/ f.nullable THEN 1..(Len(u.s) + 1)
                    ELSE { i \in 1..Len(u.s) : At(u.s, i) \in f.cs }
    IN  IF \E r \in RequiredOfSeq(segs, 1) :
              ~contains(u.l, IF u.ic THEN r.l ELSE r.s)
        THEN {}
        ELSE { i \in tried(FirstOfSeq(segs, 1, u.ic)) : MatchAt(segs, u, i) # << >> }

\* re.search(pattern, s)
re_search(segs, s, ic) ==
    LET first(u, starts) == IF starts = {} THEN << >> ELSE MatchAt(segs, u, Min(starts))
        search(u) == first(u, MatchStarts(segs, u))
    IN  search(Subject(s, ic))

\* the scan of re.findall: the leftmost match at or after from, then on from its end
RECURSIVE findall_from(_, _, _, _)
findall_from(segs, u, starts, from) ==
    LET rest == { i \in starts : i >= from }
    IN  IF rest = {} THEN << >>
        ELSE LET then(m) == << m >> \o
                            findall_from(segs, u, rest,
                                         IF m[Len(m)] > m[1] THEN m[Len(m)] ELSE m[1] + 1)
             IN  then(MatchAt(segs, u, Min(rest)))

\* the matches of re.findall(pattern, s), left to right, not overlapping
re_matches(segs, s, ic) ==
    LET scan_of(u) == findall_from(segs, u, MatchStarts(segs, u), 1)
    IN  scan_of(Subject(s, ic))

\* re.findall(pattern, s) of a pattern whose only group is segment k
re_findall(segs, k, s, ic) ==
    LET groups(ms) == [j \in 1..Len(ms) |-> Group(s, ms[j], k)]
    IN  groups(re_matches(segs, s, ic))

\* re.split(pattern, s) of a pattern without groups
re_split(segs, s) ==
    LET between(ms) ==
            [k \in 1..(Len(ms) + 1) |->
                SubSeq(s, IF k = 1 THEN 1 ELSE ms[k - 1][Len(ms[k - 1])],
                          IF k > Len(ms) THEN Len(s) ELSE ms[k][1] - 1)]
    IN  between(re_matches(segs, s, FALSE))

(***************************************************************************)
(* Numbers and their formatting.  A float that holds an amount of money is *)
(* modelled by its number of hundredths (1500.00 is 150000), which is      *)
(* exact for every amount the source parses or compares.                   *)
(***************************************************************************)
\* str(n), n >= 0
RECURSIVE str_int(_)
str_int(n) ==
    IF n < 10 THEN At(Digits, n + 1)
    ELSE str_int(n \div 10) \o At(Digits, (n % 10) + 1)

\* int(s) of a string of digits
RECURSIVE int_str(_)
int_str(s) ==
    IF s = "" THEN 0
    ELSE 10 * int_str(SubSeq(s, 1, Len(s) - 1))
         + ((CHOOSE k \in 1..10 : At(Digits, k) = At(s, Len(s))) - 1)

\* float(s) of a string "ddd" or "ddd.dd", in hundredths
float_str(s) ==
    LET hundredths(parts) == 100 * int_str(parts[1])
                             + (IF Len(parts) > 1 THEN int_str(parts[2]) ELSE 0)
    IN  hundredths(split(s, "."))

\* f"{n:,}" of an integer n >= 0
RECURSIVE fmt_comma(_)
fmt_comma(n) ==
    IF n < 1000 THEN str_int(n)
    ELSE LET r == n % 1000
         IN  fmt_comma(n \div 1000) \o "," \o
             (IF r < 10 THEN "00" ELSE IF r < 100 THEN "0" ELSE "") \o str_int(r)

\* the integer f"{x:.0f}" prints for x >= 0 given in hundredths: round half to even
round_0f(h) ==
    LET w == h \div 100
        r == h % 100
    IN  IF r > 50 \/ (r = 50 /\ w % 2 = 1) THEN w + 1 ELSE w

\* f"{x:,.0f}"
fmt_comma_0f(h) == fmt_comma(round_0f(h))

\* Optional[float]: <<>> is None, <<h>> the float of h hundredths
NoFloat == << >>
Float(h) == << h >>

\* Python truthiness
truthy_str(v) == v # None /\ v # ""
truthy_float(v) == v # NoFloat /\ v[1] # 0

\* v or default
or_str(v, default) == IF truthy_str(v) THEN v ELSE default

RECURSIVE max_of(_, _)
max_of(seq, k) ==
    IF k = Len(seq) THEN seq[k]
    ELSE LET m == max_of(seq, k + 1) IN IF seq[k] >= m THEN seq[k] ELSE m

\* max(seq) of a non-empty sequence of numbers
max(seq) == max_of(seq, 1)

(***************************************************************************)
(* schemas/crm.py: ExtractedData, every field at its default.              *)
(***************************************************************************)
ExtractedData ==
    [contact_name |-> None, contact_email |-> None, contact_phone |-> None,
     contact_title |-> None, company_name |-> None, company_website |-> None,
     deal_title |-> None, deal_value |-> NoFloat, next_step |-> None,
     next_step_date |-> None, summary |-> None, sentiment |-> None,
     entities |-> << >>]


(***************************************************************************)
(* services/crm_agent.py: CRMAgent.                                        *)
(* Glyphs outside ASCII (the emoji of the timeline, the bullet of the      *)
(* minutes, the signs of the actions) are written as ASCII names.          *)
(***************************************************************************)
negative_words == << "angry", "upset", "ridiculous", "unacceptable", "terrible", "worst" >>
empathetic_words == << "apologize", "sorry", "understand", "help" >>
positive_words_line == << "thank", "appreciate", "great", "excellent" >>

\* the chain with the empathetic words tested before the negative ones
line_sentiment_empathy_first(line_lower) ==
    IF any_in(line_lower, empathetic_words) THEN "empathetic"
    ELSE IF any_in(line_lower, negative_words) THEN "negative"
    ELSE IF any_in(line_lower, positive_words_line) THEN "positive"
    ELSE "neutral"

\* the if/elif chain of the loop body: the sentiment of one line
line_sentiment(line_lower) ==
    IF any_in(line_lower, negative_words) THEN "negative"
    ELSE IF any_in(line_lower, empathetic_words) THEN "empathetic"
    ELSE IF any_in(line_lower, positive_words_line) THEN "positive"
    ELSE "neutral"

sentiment_emoji(sentiment) ==
    CASE sentiment = "negative" -> ":angry:"
      [] sentiment = "empathetic" -> ":handshake:"
      [] sentiment = "positive" -> ":smile:"
      [] OTHER -> ":neutral:"

\* the line as it is, however long
point_description_whole(line) == line

\* line[:100] + "..." if len(line) > 100 else line
point_description(line) ==
    IF Len(line) > 100 THEN SubSeq(line, 1, 100) \o "..." ELSE line

RECURSIVE timeline_loop(_, _, _, _)
timeline_loop(lines, i, current_sentiment, timeline) ==
    IF i > Len(lines) THEN timeline
    ELSE IF strip(lines[i]) = ""
         THEN timeline_loop(lines, i + 1, current_sentiment, timeline)
         ELSE LET sentiment == line_sentiment(lower(lines[i]))
              IN  IF sentiment # current_sentiment
                  THEN timeline_loop(lines, i + 1, sentiment,
                           Append(timeline,
                                  [stage |-> "Point " \o str_int(Len(timeline) + 1),
                                   sentiment |-> sentiment,
                                   emoji |-> sentiment_emoji(sentiment),
                                   description |-> point_description(lines[i])]))
                  ELSE timeline_loop(lines, i + 1, current_sentiment, timeline)

\* the timeline without the cut to five points
_analyze_sentiment_timeline_uncut(transcript) ==
    timeline_loop(split(transcript, "\n"), 1, "neutral", << >>)

_analyze_sentiment_timeline(transcript) ==
    Take(timeline_loop(split(transcript, "\n"), 1, "neutral", << >>), 5)

RISK_CHURN == "Customer churn risk detected"
RISK_ESCALATION == "Issue escalated to management"
RISK_NEGATIVE == "High negative sentiment - immediate action required"
RISK_DISRUPTION == "Service disruption - customer compensation may be needed"

\* the rules with the disruption flag raised by "flight" or "booking" alone
_detect_risks_booking_alone(transcript, extracted) ==
    LET transcript_lower == lower(transcript)
    IN  (IF any_in(transcript_lower, << "cancel", "refund", "never again", "worst" >>)
         THEN << RISK_CHURN >> ELSE << >>)
        \o
        (IF contains(transcript_lower, "supervisor") \/ contains(transcript_lower, "manager")
         THEN << RISK_ESCALATION >> ELSE << >>)
        \o
        (IF count(transcript_lower, "unacceptable") > 2 \/ count(transcript_lower, "ridiculous") > 2
         THEN << RISK_NEGATIVE >> ELSE << >>)
        \o
        (IF contains(transcript_lower, "flight") \/ contains(transcript_lower, "booking")
         THEN << RISK_DISRUPTION >> ELSE << >>)

\* the risk flags with refund dropped from the churn words
_detect_risks_without_refund(transcript, extracted) ==
    LET transcript_lower == lower(transcript)
    IN  (IF any_in(transcript_lower, << "cancel", "never again", "worst" >>)
         THEN << RISK_CHURN >> ELSE << >>)
        \o
        (IF contains(transcript_lower, "supervisor") \/ contains(transcript_lower, "manager")
         THEN << RISK_ESCALATION >> ELSE << >>)
        \o
        (IF count(transcript_lower, "unacceptable") > 2 \/ count(transcript_lower, "ridiculous") > 2
         THEN << RISK_NEGATIVE >> ELSE << >>)
        \o
        (IF /\ contains(transcript_lower, "cancel")
            /\ (contains(transcript_lower, "flight") \/ contains(transcript_lower, "booking"))
         THEN << RISK_DISRUPTION >> ELSE << >>)

_detect_risks(transcript, extracted) ==
    LET transcript_lower == lower(transcript)
    IN  (IF any_in(transcript_lower, << "cancel", "refund", "never again", "worst" >>)
         THEN << RISK_CHURN >> ELSE << >>)
        \o
        (IF contains(transcript_lower, "supervisor") \/ contains(transcript_lower, "manager")
         THEN << RISK_ESCALATION >> ELSE << >>)
        \o
        (IF count(transcript_lower, "unacceptable") > 2 \/ count(transcript_lower, "ridiculous") > 2
         THEN << RISK_NEGATIVE >> ELSE << >>)
        \o
        (IF /\ contains(transcript_lower, "cancel")
            /\ (contains(transcript_lower, "flight") \/ contains(transcript_lower, "booking"))
         THEN << RISK_DISRUPTION >> ELSE << >>)

\* sum(1 for s in sentiment_timeline if s['sentiment'] == 'negative')
negative_count(sentiment_timeline) ==
    Cardinality({k \in 1..Len(sentiment_timeline) :
                    sentiment_timeline[k].sentiment = "negative"})

\* the score with "cancel" counted once however often it occurs
churn_score_cancel_once(transcript, sentiment_timeline) ==
    LET transcript_lower == lower(transcript)
    IN  50
        + (IF contains(transcript_lower, "cancel") THEN 10 ELSE 0)
        + count(transcript_lower, "refund") * 8
        + count(transcript_lower, "unacceptable") * 5
        + count(transcript_lower, "worst") * 7
        + count(transcript_lower, "never") * 6
        + (IF contains(transcript_lower, "voucher") /\ contains(transcript_lower, "don't want")
           THEN 15 ELSE 0)
        - (IF contains(transcript_lower, "thank") THEN 5 ELSE 0)
        - (IF contains(transcript_lower, "appreciate") THEN 5 ELSE 0)
        - (IF contains(transcript_lower, "resolve") \/ contains(transcript_lower, "fixed")
           THEN 10 ELSE 0)
        + negative_count(sentiment_timeline) * 8

\* the score with every timeline point counted as a negative one
churn_score_every_point(transcript, sentiment_timeline) ==
    LET transcript_lower == lower(transcript)
    IN  50
        + count(transcript_lower, "cancel") * 10
        + count(transcript_lower, "refund") * 8
        + count(transcript_lower, "unacceptable") * 5
        + count(transcript_lower, "worst") * 7
        + count(transcript_lower, "never") * 6
        + (IF contains(transcript_lower, "voucher") /\ contains(transcript_lower, "don't want")
           THEN 15 ELSE 0)
        - (IF contains(transcript_lower, "thank") THEN 5 ELSE 0)
        - (IF contains(transcript_lower, "appreciate") THEN 5 ELSE 0)
        - (IF contains(transcript_lower, "resolve") \/ contains(transcript_lower, "fixed")
           THEN 10 ELSE 0)
        + Len(sentiment_timeline) * 8

\* the score with one relief of 5 for "thank" or "appreciate"
churn_score_one_relief(transcript, sentiment_timeline) ==
    LET transcript_lower == lower(transcript)
    IN  50
        + count(transcript_lower, "cancel") * 10
        + count(transcript_lower, "refund") * 8
        + count(transcript_lower, "unacceptable") * 5
        + count(transcript_lower, "worst") * 7
        + count(transcript_lower, "never") * 6
        + (IF contains(transcript_lower, "voucher") /\ contains(transcript_lower, "don't want")
           THEN 15 ELSE 0)
        - (IF contains(transcript_lower, "thank") \/ contains(transcript_lower, "appreciate")
           THEN 5 ELSE 0)
        - (IF contains(transcript_lower, "resolve") \/ contains(transcript_lower, "fixed")
           THEN 10 ELSE 0)
        + negative_count(sentiment_timeline) * 8

\* the score with a relief of 10 for "thank"
churn_score_thank_ten(transcript, sentiment_timeline) ==
    LET transcript_lower == lower(transcript)
    IN  50
        + count(transcript_lower, "cancel") * 10
        + count(transcript_lower, "refund") * 8
        + count(transcript_lower, "unacceptable") * 5
        + count(transcript_lower, "worst") * 7
        + count(transcript_lower, "never") * 6
        + (IF contains(transcript_lower, "voucher") /\ contains(transcript_lower, "don't want")
           THEN 15 ELSE 0)
        - (IF contains(transcript_lower, "thank") THEN 10 ELSE 0)
        - (IF contains(transcript_lower, "appreciate") THEN 5 ELSE 0)
        - (IF contains(transcript_lower, "resolve") \/ contains(transcript_lower, "fixed")
           THEN 10 ELSE 0)
        + negative_count(sentiment_timeline) * 8

\* the score before it is capped
churn_score(transcript, sentiment_timeline) ==
    LET transcript_lower == lower(transcript)
    IN  50
        + count(transcript_lower, "cancel") * 10
        + count(transcript_lower, "refund") * 8
        + count(transcript_lower, "unacceptable") * 5
        + count(transcript_lower, "worst") * 7
        + count(transcript_lower, "never") * 6
        + (IF contains(transcript_lower, "voucher") /\ contains(transcript_lower, "don't want")
           THEN 15 ELSE 0)
        - (IF contains(transcript_lower, "thank") THEN 5 ELSE 0)
        - (IF contains(transcript_lower, "appreciate") THEN 5 ELSE 0)
        - (IF contains(transcript_lower, "resolve") \/ contains(transcript_lower, "fixed")
           THEN 10 ELSE 0)
        + negative_count(sentiment_timeline) * 8

py_min(a, b) == IF b < a THEN b ELSE a
py_max(a, b) == IF b > a THEN b ELSE a

\* the score returned as it is
cap_score_uncapped(score) == score

\* max(0, min(100, score))
cap_score(score) == py_max(0, py_min(100, score))

_calculate_churn_probability(transcript, sentiment_timeline) ==
    cap_score(churn_score(transcript, sentiment_timeline))

risk_insight(risks) ==
    [category |-> "risk", priority |-> "high",
     title |-> ":warning: Critical Customer Issues Detected",
     description |-> str_int(Len(risks)) \o
                     " risk factors identified requiring immediate attention",
     action_required |-> TRUE,
     suggested_actions |-> << "Assign to senior account manager",
                              "Schedule follow-up call within 24 hours",
                              "Review service recovery procedures" >>]

sentiment_insight ==
    [category |-> "sentiment", priority |-> "high",
     title |-> ":angry: Negative Customer Experience",
     description |-> "Customer expressed significant dissatisfaction throughout interaction",
     action_required |-> TRUE,
     suggested_actions |-> << "Send personalized apology from leadership",
                              "Offer additional compensation",
                              "Monitor for follow-up issues" >>]

opportunity_insight(extracted) ==
    [category |-> "opportunity", priority |-> "medium",
     title |-> ":money: High-Value Customer",
     description |-> "Customer has $" \o fmt_comma_0f(extracted.deal_value[1]) \o
                     " transaction - worth retaining",
     action_required |-> TRUE,
     suggested_actions |-> << "Assign VIP status",
                              "Provide premium support access",
                              "Consider loyalty program enrollment" >>]

\* a value of 1000 counted as high
high_value_inclusive(extracted) ==
    truthy_float(extracted.deal_value) /\ extracted.deal_value[1] >= 1000 * 100

\* extracted.deal_value and extracted.deal_value > 1000
high_value(extracted) ==
    truthy_float(extracted.deal_value) /\ extracted.deal_value[1] > 1000 * 100

_generate_insights(transcript, extracted, risks) ==
    (IF risks # << >> THEN << risk_insight(risks) >> ELSE << >>)
    \o
    (IF extracted.sentiment = "negative" THEN << sentiment_insight >> ELSE << >>)
    \o
    (IF high_value(extracted) THEN << opportunity_insight(extracted) >> ELSE << >>)

\* [A-Z][a-z]+(?: [A-Z][a-z]+)?
staff_name ==
    Cat(<< Set(UpperSet), Plus(Set(LowerSet)),
           Opt(Cat(<< Lit(" "), Set(UpperSet), Plus(Set(LowerSet)) >>)) >>)

\* each pattern with the index of the segment that is its group
staff_patterns ==
    << [segs |-> << Alt(<< Lit("CSR"), Lit("Agent"), Lit("Supervisor"), Lit("Manager") >>),
                    Plus(Set(SpaceSet \cup {":"})),
                    staff_name >>,
        group |-> 3],
       [segs |-> << Lit("this is "), staff_name >>, group |-> 2] >>

primary_contact(extracted) ==
    [name |-> extracted.contact_name,
     email |-> or_str(extracted.contact_email, ""),
     phone |-> or_str(extracted.contact_phone, ""),
     role |-> "Customer",
     company |-> or_str(extracted.company_name, "")]

staff_contact(name, extracted) ==
    [name |-> strip(name), email |-> "", phone |-> "", role |-> "Staff",
     company |-> or_str(extracted.company_name, "Internal")]

\* for match in matches: if name and len(name) > 2: contacts.append(...)
RECURSIVE staff_of_matches(_, _, _)
staff_of_matches(matches, k, extracted) ==
    IF k > Len(matches) THEN << >>
    ELSE (IF matches[k] # "" /\ Len(matches[k]) > 2
          THEN << staff_contact(matches[k], extracted) >> ELSE << >>)
         \o staff_of_matches(matches, k + 1, extracted)

RECURSIVE staff_of_patterns(_, _, _)
staff_of_patterns(transcript, p, extracted) ==
    IF p > Len(staff_patterns) THEN << >>
    ELSE staff_of_matches(re_findall(staff_patterns[p].segs, staff_patterns[p].group,
                                     transcript, FALSE), 1, extracted)
         \o staff_of_patterns(transcript, p + 1, extracted)

\* the list with the staff before the primary contact
all_contacts_staff_first(transcript, extracted) ==
    staff_of_patterns(transcript, 1, extracted)
    \o (IF truthy_str(extracted.contact_name) THEN << primary_contact(extracted) >> ELSE << >>)

\* the list before the duplicates are removed
all_contacts(transcript, extracted) ==
    (IF truthy_str(extracted.contact_name) THEN << primary_contact(extracted) >> ELSE << >>)
    \o staff_of_patterns(transcript, 1, extracted)

\* "Remove duplicates": the first contact of each name, in order
RECURSIVE unique_by_name(_, _, _, _)
unique_by_name(contacts, k, seen, unique_contacts) ==
    IF k > Len(contacts) THEN unique_contacts
    ELSE IF contacts[k].name \notin seen
         THEN unique_by_name(contacts, k + 1, seen \cup {contacts[k].name},
                             Append(unique_contacts, contacts[k]))
         ELSE unique_by_name(contacts, k + 1, seen, unique_contacts)

\* every contact kept
remove_duplicates_none(contacts) == contacts

remove_duplicates(contacts) == unique_by_name(contacts, 1, {}, << >>)

_identify_contacts(transcript, extracted) ==
    Take(remove_duplicates(all_contacts(transcript, extracted)), 5)


_determine_deal_stage(transcript) ==
    LET transcript_lower == lower(transcript)
    IN  IF contains(transcript_lower, "refund") \/ contains(transcript_lower, "cancel")
        THEN "Cancelled/Refunded"
        ELSE IF contains(transcript_lower, "closed") \/ contains(transcript_lower, "completed")
        THEN "Closed Won"
        ELSE IF contains(transcript_lower, "negotiat") \/ contains(transcript_lower, "discuss")
        THEN "Negotiation"
        ELSE "In Progress"

\* the status with cancel tested before refund
_determine_deal_status_cancel_first(transcript) ==
    LET transcript_lower == lower(transcript)
    IN  IF contains(transcript_lower, "cancel") THEN "Cancelled"
        ELSE IF contains(transcript_lower, "refund") THEN "Refunded"
        ELSE IF contains(transcript_lower, "complete") THEN "Completed"
        ELSE "Active"

_determine_deal_status(transcript) ==
    LET transcript_lower == lower(transcript)
    IN  IF contains(transcript_lower, "refund") THEN "Refunded"
        ELSE IF contains(transcript_lower, "cancel") THEN "Cancelled"
        ELSE IF contains(transcript_lower, "complete") THEN "Completed"
        ELSE "Active"

\* a deal for every title or value that is not None, the empty and the zero too
_extract_deals_not_none(transcript, extracted) ==
    IF extracted.deal_title # None \/ extracted.deal_value # NoFloat
    THEN << [title |-> or_str(extracted.deal_title, "Transaction"),
             value |-> IF truthy_float(extracted.deal_value)
                       THEN extracted.deal_value[1] ELSE 0,
             stage |-> _determine_deal_stage(transcript),
             status |-> _determine_deal_status(transcript),
             notes |-> or_str(extracted.summary, "")] >>
    ELSE << >>

\* a deal for an extracted title only
_extract_deals_title_only(transcript, extracted) ==
    IF truthy_str(extracted.deal_title)
    THEN << [title |-> or_str(extracted.deal_title, "Transaction"),
             value |-> IF truthy_float(extracted.deal_value)
                       THEN extracted.deal_value[1] ELSE 0,
             stage |-> _determine_deal_stage(transcript),
             status |-> _determine_deal_status(transcript),
             notes |-> or_str(extracted.summary, "")] >>
    ELSE << >>

_extract_deals(transcript, extracted) ==
    IF truthy_str(extracted.deal_title) \/ truthy_float(extracted.deal_value)
    THEN << [title |-> or_str(extracted.deal_title, "Transaction"),
             value |-> IF truthy_float(extracted.deal_value)
                       THEN extracted.deal_value[1] ELSE 0,
             stage |-> _determine_deal_stage(transcript),
             status |-> _determine_deal_status(transcript),
             notes |-> or_str(extracted.summary, "")] >>
    ELSE << >>

next_step_task(extracted) ==
    [title |-> "Follow-up Action Required", description |-> extracted.next_step,
     priority |-> "high", due_date |-> "2 days", assigned_to |-> "Account Manager"]

retention_task ==
    [title |-> "Customer Retention Action",
     description |-> "High churn risk - immediate outreach required",
     priority |-> "urgent", due_date |-> "24 hours",
     assigned_to |-> "Senior Account Manager"]

refund_task ==
    [title |-> "Process Refund",
     description |-> "Complete refund processing and confirm with customer",
     priority |-> "high", due_date |-> "3 days", assigned_to |-> "Finance Team"]

\* the tasks with the next-step task for every next step that is not None
_generate_tasks_not_none(transcript, extracted, insights) ==
    (IF extracted.next_step # None THEN << next_step_task(extracted) >> ELSE << >>)
    \o
    (IF \E k \in 1..Len(insights) : insights[k].category = "risk"
     THEN << retention_task >> ELSE << >>)
    \o
    (IF contains(lower(transcript), "refund") THEN << refund_task >> ELSE << >>)

_generate_tasks(transcript, extracted, insights) ==
    (IF truthy_str(extracted.next_step) THEN << next_step_task(extracted) >> ELSE << >>)
    \o
    (IF \E k \in 1..Len(insights) : insights[k].category = "risk"
     THEN << retention_task >> ELSE << >>)
    \o
    (IF contains(lower(transcript), "refund") THEN << refund_task >> ELSE << >>)

\* the summary with the churn lines from 70 and from 50 on
_generate_executive_summary_inclusive(transcript, extracted, sentiment_timeline, risks, churn_prob) ==
    LET summary_parts ==
          (IF truthy_str(extracted.contact_name)
           THEN << "Customer " \o extracted.contact_name \o " contacted support" >>
           ELSE << >>)
          \o
          (IF sentiment_timeline # << >>
           THEN << "with " \o sentiment_timeline[1].sentiment \o " sentiment" >>
           ELSE << >>)
          \o
          (IF truthy_str(extracted.summary)
           THEN << "regarding: " \o Prefix(extracted.summary, 100) >>
           ELSE << >>)
          \o
          (IF churn_prob >= 70
           THEN << ":warning: CRITICAL: " \o str_int(churn_prob) \o "% churn probability" >>
           ELSE IF churn_prob >= 50
           THEN << ":warning: WARNING: " \o str_int(churn_prob) \o "% churn probability" >>
           ELSE << >>)
          \o
          (IF contains(lower(transcript), "refund") THEN << "Refund processed" >> ELSE << >>)
          \o
          (IF contains(lower(transcript), "supervisor")
           THEN << "escalated to supervisor" >> ELSE << >>)
    IN  join(". ", summary_parts) \o "."

_generate_executive_summary(transcript, extracted, sentiment_timeline, risks, churn_prob) ==
    LET summary_parts ==
          (IF truthy_str(extracted.contact_name)
           THEN << "Customer " \o extracted.contact_name \o " contacted support" >>
           ELSE << >>)
          \o
          (IF sentiment_timeline # << >>
           THEN << "with " \o sentiment_timeline[1].sentiment \o " sentiment" >>
           ELSE << >>)
          \o
          (IF truthy_str(extracted.summary)
           THEN << "regarding: " \o Prefix(extracted.summary, 100) >>
           ELSE << >>)
          \o
          (IF churn_prob > 70
           THEN << ":warning: CRITICAL: " \o str_int(churn_prob) \o "% churn probability" >>
           ELSE IF churn_prob > 50
           THEN << ":warning: WARNING: " \o str_int(churn_prob) \o "% churn probability" >>
           ELSE << >>)
          \o
          (IF contains(lower(transcript), "refund") THEN << "Refund processed" >> ELSE << >>)
          \o
          (IF contains(lower(transcript), "supervisor")
           THEN << "escalated to supervisor" >> ELSE << >>)
    IN  join(". ", summary_parts) \o "."

SentenceEnd == {".", "!", "?"}
LineEnd == SentenceEnd \cup {"\n"}

key_phrases ==
    << "refund", "cancel", "problem", "issue", "apologize",
       "resolve", "supervisor", "voucher", "compensation" >>

RECURSIVE key_points_loop(_, _, _)
key_points_loop(sentences, k, points) ==
    IF k > Len(sentences) THEN points
    ELSE LET sentence == strip(sentences[k])
         IN  IF any_in(lower(sentence), key_phrases) /\ Len(sentence) > 30
             THEN LET added == Append(points, Prefix(sentence, 150))
                  IN  IF Len(added) >= 5 THEN added
                      ELSE key_points_loop(sentences, k + 1, added)
             ELSE key_points_loop(sentences, k + 1, points)

_extract_key_points(transcript, extracted) ==
    key_points_loop(re_split(<< Plus(Set(SentenceEnd)) >>, transcript), 1, << >>)

\* the ladder with ">=" for ">" on the churn score
_determine_risk_level_inclusive(churn_prob, risks, sentiment_timeline) ==
    IF churn_prob >= 70 \/ Len(risks) >= 3 THEN "critical"
    ELSE IF churn_prob >= 50 \/ Len(risks) >= 2 THEN "high"
    ELSE IF churn_prob >= 30 \/ Len(risks) >= 1 THEN "medium"
    ELSE "low"

\* a classifier that also looks at the timeline: a negative point lifts "low"
\* and "medium" to "high"
_determine_risk_level_by_timeline(churn_prob, risks, sentiment_timeline) ==
    IF churn_prob > 70 \/ Len(risks) >= 3 THEN "critical"
    ELSE IF churn_prob > 50 \/ Len(risks) >= 2 \/ negative_count(sentiment_timeline) > 0
    THEN "high"
    ELSE IF churn_prob > 30 \/ Len(risks) >= 1 THEN "medium"
    ELSE "low"

\* a ladder that looks for exactly three and exactly two flags
_determine_risk_level_exact_count(churn_prob, risks, sentiment_timeline) ==
    IF churn_prob > 70 \/ Len(risks) = 3 THEN "critical"
    ELSE IF churn_prob > 50 \/ Len(risks) = 2 THEN "high"
    ELSE IF churn_prob > 30 \/ Len(risks) >= 1 THEN "medium"
    ELSE "low"

_determine_risk_level(churn_prob, risks, sentiment_timeline) ==
    IF churn_prob > 70 \/ Len(risks) >= 3 THEN "critical"
    ELSE IF churn_prob > 50 \/ Len(risks) >= 2 THEN "high"
    ELSE IF churn_prob > 30 \/ Len(risks) >= 1 THEN "medium"
    ELSE "low"

\* the list with the compensation actions from a score of 60 on
all_actions_from_sixty(insights, risk_level, churn_prob) ==
    (IF risk_level \in {"critical", "high"}
     THEN << ":alarm: Immediate: Assign to senior account manager",
             ":phone: Schedule follow-up call within 24 hours" >>
     ELSE << >>)
    \o
    (IF churn_prob >= 60
     THEN << ":money: Consider additional compensation/credits",
             ":people: Escalate to customer success team" >>
     ELSE << >>)
    \o
    << ":email: Send personalized follow-up email",
       ":chart: Monitor customer satisfaction metrics",
       ":check: Document issue in CRM with full context" >>

\* the list before it is cut to 6
all_actions(insights, risk_level, churn_prob) ==
    (IF risk_level \in {"critical", "high"}
     THEN << ":alarm: Immediate: Assign to senior account manager",
             ":phone: Schedule follow-up call within 24 hours" >>
     ELSE << >>)
    \o
    (IF churn_prob > 60
     THEN << ":money: Consider additional compensation/credits",
             ":people: Escalate to customer success team" >>
     ELSE << >>)
    \o
    << ":email: Send personalized follow-up email",
       ":chart: Monitor customer satisfaction metrics",
       ":check: Document issue in CRM with full context" >>

\* the list cut to its last six actions
_generate_recommended_actions_last_six(insights, risk_level, churn_prob) ==
    LET kept(actions) ==
            IF Len(actions) > 6 THEN SubSeq(actions, Len(actions) - 5, Len(actions))
            ELSE actions
    IN  kept(all_actions(insights, risk_level, churn_prob))

_generate_recommended_actions(insights, risk_level, churn_prob) ==
    Take(all_actions(insights, risk_level, churn_prob), 6)

Months ==
    << Lit("January"), Lit("February"), Lit("March"), Lit("April"), Lit("May"),
       Lit("June"), Lit("July"), Lit("August"), Lit("September"), Lit("October"),
       Lit("November"), Lit("December") >>

date_patterns ==
    << << Rep(Set(DigitSet), 4, 4), Lit("-"), Rep(Set(DigitSet), 2, 2), Lit("-"),
          Rep(Set(DigitSet), 2, 2) >>,
       << Rep(Set(DigitSet), 1, 2), Lit("/"), Rep(Set(DigitSet), 1, 2), Lit("/"),
          Rep(Set(DigitSet), 4, 4) >>,
       << Alt(Months), Plus(Set(SpaceSet)), Rep(Set(DigitSet), 1, 2), Opt(Lit(",")),
          Plus(Set(SpaceSet)), Rep(Set(DigitSet), 4, 4) >> >>

\* for pattern in patterns: match = re.search(...); if match: ... break
RECURSIVE first_search(_, _, _)
first_search(patterns, p, transcript) ==
    IF p > Len(patterns) THEN [p |-> 0, m |-> << >>]
    ELSE LET found(m) == IF m # << >> THEN [p |-> p, m |-> m]
                         ELSE first_search(patterns, p + 1, transcript)
         IN  found(re_search(patterns[p], transcript, TRUE))

meeting_date(transcript) ==
    LET date(f) == IF f.p = 0 THEN None ELSE Group0(transcript, f.m)
    IN  date(first_search(date_patterns, 1, transcript))

meeting_title(transcript, context) ==
    IF context = "customer_service"
    THEN IF contains(lower(transcript), "supervisor")
         THEN "Customer Service Escalation Call"
         ELSE "Customer Support Call"
    ELSE IF contains(lower(transcript), "meeting") THEN "Team Meeting"
    ELSE IF contains(lower(transcript), "review") THEN "Review Session"
    ELSE "Business Discussion"

\* the pair (title, date)
_extract_meeting_metadata(transcript, context) ==
    << meeting_title(transcript, context), meeting_date(transcript) >>

\* [contact['name'] for contact in contacts if contact.get('name')]
RECURSIVE attendees_from(_, _)
attendees_from(contacts, k) ==
    IF k > Len(contacts) THEN << >>
    ELSE (IF truthy_str(contacts[k].name) THEN << contacts[k].name >> ELSE << >>)
         \o attendees_from(contacts, k + 1)

_extract_attendees(contacts) == attendees_from(contacts, 1)

\* the bullet and the blank that start every decision and follow-up
BULLET == "* "

\* x in list
in_list(x, list) == \E k \in 1..Len(list) : list[k] = x

decision_patterns ==
    << [segs |-> << Alt(<< Lit("decided"), Lit("agreed"), Lit("concluded"), Lit("determined") >>),
                    Plus(Set(SpaceSet)), Alt(<< Lit("to"), Lit("that") >>),
                    Plus(Set(SpaceSet)), Rep(NotSet(SentenceEnd), 20, 100) >>,
        group |-> 5],
       [segs |-> << Alt(<< Lit("will"), Lit("going to") >>), Plus(Set(SpaceSet)),
                    Rep(NotSet(SentenceEnd), 20, 80) >>,
        group |-> 3],
       [segs |-> << Alt(<< Lit("refund"), Lit("process"), Lit("implement"),
                           Lit("schedule"), Lit("approve") >>),
                    Plus(Set(SpaceSet)), Rep(NotSet(SentenceEnd), 15, 80) >>,
        group |-> 3] >>

\* the inner loop of _extract_decisions and of _extract_follow_ups:
\* for match in matches: item = match.strip()
\*     if len(item) > 15 and item not in items: items.append(f"{BULLET}{item}")
\*     if len(items) >= 5: break
RECURSIVE bullet_matches(_, _, _)
bullet_matches(matches, k, items) ==
    IF k > Len(matches) THEN items
    ELSE LET item == strip(matches[k])
             added == IF Len(item) > 15 /\ ~in_list(item, items)
                      THEN Append(items, BULLET \o item) ELSE items
         IN  IF Len(added) >= 5 THEN added
             ELSE bullet_matches(matches, k + 1, added)

\* the outer loop: for pattern in patterns
RECURSIVE bullet_patterns(_, _, _, _)
bullet_patterns(patterns, p, transcript, items) ==
    IF p > Len(patterns) THEN items
    ELSE bullet_patterns(patterns, p + 1, transcript,
             bullet_matches(re_findall(patterns[p].segs, patterns[p].group,
                                       transcript, TRUE), 1, items))

_extract_decisions(transcript) ==
    Take(bullet_patterns(decision_patterns, 1, transcript, << >>), 5)

action_patterns ==
    << [segs |-> << Alt(<< Lit("action item"), Lit("to-do"), Lit("task") >>), Lit(":"),
                    Star(Set(SpaceSet)), Rep(NotSet(LineEnd), 15, 80) >>,
        group |-> 4],
       [segs |-> << Alt(<< Lit("please"), Lit("need to"), Lit("should"), Lit("must") >>),
                    Plus(Set(SpaceSet)), Rep(NotSet(LineEnd), 15, 80) >>,
        group |-> 3] >>

task_action_item(task) ==
    [action |-> task.title, owner |-> task.assigned_to, due_date |-> task.due_date,
     priority |-> task.priority, status |-> "pending"]

text_action_item(match) ==
    [action |-> strip(match), owner |-> "TBD", due_date |-> "TBD",
     priority |-> "medium", status |-> "pending"]

\* for match in matches[:3]: if len(action_items) < 8: action_items.append(...)
RECURSIVE action_matches(_, _, _)
action_matches(matches, k, action_items) ==
    IF k > Len(matches) THEN action_items
    ELSE action_matches(matches, k + 1,
             IF Len(action_items) < 8
             THEN Append(action_items, text_action_item(matches[k]))
             ELSE action_items)

RECURSIVE action_pattern_loop(_, _, _)
action_pattern_loop(p, transcript, action_items) ==
    IF p > Len(action_patterns) THEN action_items
    ELSE action_pattern_loop(p + 1, transcript,
             action_matches(Take(re_findall(action_patterns[p].segs,
                                            action_patterns[p].group, transcript, TRUE), 3),
                            1, action_items))

\* the items of the tasks followed by three items of the text at most
_extract_action_items_three_from_text(transcript, tasks) ==
    Take([k \in 1..Len(tasks) |-> task_action_item(tasks[k])]
         \o Take(action_pattern_loop(1, transcript, << >>), 3), 8)

_extract_action_items(transcript, tasks) ==
    Take(action_pattern_loop(1, transcript,
                             [k \in 1..Len(tasks) |-> task_action_item(tasks[k])]), 8)

follow_up_patterns ==
    << [segs |-> << Alt(<< Cat(<< Lit("follow"), Set({"-", " "}), Lit("up") >>),
                           Lit("follow up with"), Lit("reach out to") >>),
                    Plus(Set(SpaceSet)), Rep(NotSet(LineEnd), 15, 80) >>,
        group |-> 3],
       [segs |-> << Alt(<< Lit("next time"), Lit("in the future"), Lit("moving forward") >>),
                    Plus(Set(SpaceSet)), Rep(NotSet(LineEnd), 15, 80) >>,
        group |-> 3] >>

_extract_follow_ups(transcript, extracted) ==
    Take(bullet_patterns(follow_up_patterns, 1, transcript,
                         IF truthy_str(extracted.next_step)
                         THEN << BULLET \o extracted.next_step >> ELSE << >>), 5)

next_meeting_patterns ==
    << << Lit("next "), Alt(<< Lit("meeting"), Lit("call"), Lit("session") >>),
          Plus(Set(SpaceSet)), Opt(Alt(<< Lit("on"), Lit("at") >>)), Star(Set(SpaceSet)),
          Rep(NotSet(LineEnd), 10, 50) >>,
       << Alt(<< Lit("schedule"), Lit("book"), Lit("set up") >>), Plus(Set(SpaceSet)),
          Alt(<< Lit("a"), Lit("another"), Lit("the next") >>), Plus(Set(SpaceSet)),
          Alt(<< Lit("meeting"), Lit("call") >>), Plus(Set(SpaceSet)),
          Opt(Alt(<< Lit("for"), Lit("on") >>)), Star(Set(SpaceSet)),
          Rep(NotSet(LineEnd), 10, 50) >>,
       << Alt(<< Lit("see you"), Lit("talk to you"), Lit("speak with you") >>),
          Plus(Set(SpaceSet)), Rep(NotSet(LineEnd), 10, 40) >> >>

\* match.group(1) is the last segment of each pattern
_extract_next_meeting(transcript) ==
    LET next_meeting(f) ==
            IF f.p = 0 THEN None
            ELSE strip(Group(transcript, f.m, Len(next_meeting_patterns[f.p])))
    IN  next_meeting(first_search(next_meeting_patterns, 1, transcript))


(***************************************************************************)
(* services/ai_extraction.py: AIExtractionService.                         *)
(***************************************************************************)
AlnumSet == UpperSet \cup LowerSet \cup DigitSet

\* \b[A-Za-z0-9._%+-]+@[A-Za-z0-9.-]+\.[A-Z|a-z]{2,}\b
email_pattern ==
    << WordB, Plus(Set(AlnumSet \cup {".", "_", "%", "+", "-"})), Lit("@"),
       Plus(Set(AlnumSet \cup {".", "-"})), Lit("."),
       Rep(Set(UpperSet \cup LowerSet \cup {"|"}), 2, -1), WordB >>

\* ([A-Z][a-z]+ [A-Z][a-z]+)[,\s]*\(?([a-z0-9._%+-]+@[a-z0-9.-]+\.[a-z]{2,})\)?
\* groups: segments 1 and 4
name_email_pattern ==
    << Cat(<< Set(UpperSet), Plus(Set(LowerSet)), Lit(" "),
              Set(UpperSet), Plus(Set(LowerSet)) >>),
       Star(Set(SpaceSet \cup {","})), Opt(Lit("(")),
       Cat(<< Plus(Set(LowerSet \cup DigitSet \cup {".", "_", "%", "+", "-"})), Lit("@"),
              Plus(Set(LowerSet \cup DigitSet \cup {".", "-"})), Lit("."),
              Rep(Set(LowerSet), 2, -1) >>),
       Opt(Lit(")")) >>

\* at ([A-Z][A-Za-z0-9\s]+(?:Corp|Inc|LLC|Ltd|Limited)?)   group: segment 2
company_pattern ==
    << Lit("at "),
       Cat(<< Set(UpperSet), Plus(Set(AlnumSet \cup SpaceSet)),
              Opt(Alt(<< Lit("Corp"), Lit("Inc"), Lit("LLC"), Lit("Ltd"), Lit("Limited") >>)) >>) >>

\* \(?\d{3}\)?[-.\s]?\d{3}[-.\s]?\d{4}
phone_pattern ==
    << Opt(Lit("(")), Rep(Set(DigitSet), 3, 3), Opt(Lit(")")),
       Opt(Set(SpaceSet \cup {"-", "."})), Rep(Set(DigitSet), 3, 3),
       Opt(Set(SpaceSet \cup {"-", "."})), Rep(Set(DigitSet), 4, 4) >>

\* \$\s?(\d{1,3}(?:,\d{3})*(?:\.\d{2})?)   group: segment 3
money_pattern ==
    << Lit("$"), Opt(Set(SpaceSet)),
       Cat(<< Rep(Set(DigitSet), 1, 3),
              Star(Cat(<< Lit(","), Rep(Set(DigitSet), 3, 3) >>)),
              Opt(Cat(<< Lit("."), Rep(Set(DigitSet), 2, 2) >>)) >>) >>

fallback_action_patterns ==
    << [segs |-> << Alt(<< Lit("next step"), Lit("action item"), Lit("to-do"),
                           Cat(<< Lit("follow"), Set({"-", " "}), Lit("up") >>) >>),
                    Lit(":"), Star(Set(SpaceSet)), Plus(NotSet({"\n", "."})) >>,
        group |-> 4],
       [segs |-> << Alt(<< Lit("will"), Lit("need to"), Lit("should") >>),
                    Plus(Set(SpaceSet)), Rep(NotSet({"\n", "."}), 10, 80) >>,
        group |-> 3] >>

\* actions.extend(matches[:2]) for each pattern
RECURSIVE fallback_actions(_, _)
fallback_actions(text, p) ==
    IF p > Len(fallback_action_patterns) THEN << >>
    ELSE Take(re_findall(fallback_action_patterns[p].segs,
                         fallback_action_patterns[p].group, text, TRUE), 2)
         \o fallback_actions(text, p + 1)

summary_keywords == << "need", "want", "budget", "timeline", "looking for", "interested" >>

\* [s.strip() for s in sentences if len(s.strip()) > 50 and any(keyword in s.lower() ...)]
RECURSIVE important_sentences(_, _)
important_sentences(sentences, k) ==
    IF k > Len(sentences) THEN << >>
    ELSE (IF Len(strip(sentences[k])) > 50 /\ any_in(lower(sentences[k]), summary_keywords)
          THEN << strip(sentences[k]) >> ELSE << >>)
         \o important_sentences(sentences, k + 1)

\* text[:n] + "..." if len(text) > n else text
ellipsis(text, n) == IF Len(text) > n THEN SubSeq(text, 1, n) \o "..." ELSE text

fallback_summary(text, source_type) ==
    IF source_type = "call"
    THEN LET summary(important) ==
                 IF important # << >> THEN join(". ", Take(important, 3)) \o "."
                 ELSE ellipsis(text, 200)
         IN  summary(important_sentences(re_split(<< Plus(Set(SentenceEnd)) >>, text), 1))
    ELSE ellipsis(text, 150)

positive_words == << "great", "excellent", "perfect", "looking forward", "excited", "interested" >>
negative_words_text == << "concern", "worried", "problem", "issue", "unfortunately", "difficult" >>

\* sum(1 for word in words if word in text_lower)
words_in(text_lower, words) ==
    Cardinality({k \in 1..Len(words) : contains(text_lower, words[k])})

fallback_sentiment(text) ==
    LET positive_count == words_in(lower(text), positive_words)
        negative_count_text == words_in(lower(text), negative_words_text)
    IN  IF positive_count > negative_count_text THEN "positive"
        ELSE IF negative_count_text > positive_count THEN "negative"
        ELSE "neutral"

_fallback_extraction(text, source_type) ==
    LET company(company_match) ==
            IF company_match # << >> THEN strip(Group(text, company_match, 2)) ELSE None
        amounts_of(money_matches) ==
            [k \in 1..Len(money_matches) |-> float_str(replace(money_matches[k], ",", ""))]
        largest(money_matches) ==
            IF money_matches # << >> THEN Float(max(amounts_of(money_matches))) ELSE NoFloat
        data(emails, name_email_match, company_name, phone_match, deal_value, actions) ==
            [ExtractedData EXCEPT
               !.contact_email = IF name_email_match # << >>
                                 THEN Group(text, name_email_match, 4)
                                 ELSE IF emails # << >> THEN Group0(text, emails[1])
                                 ELSE None,
               !.contact_name = IF name_email_match # << >>
                                THEN strip(Group(text, name_email_match, 1)) ELSE None,
               !.company_name = company_name,
               !.contact_phone = IF phone_match # << >> THEN Group0(text, phone_match)
                                 ELSE None,
               !.deal_value = deal_value,
               !.deal_title = IF deal_value # NoFloat
                              THEN or_str(company_name, "Potential") \o " Deal - $"
                                   \o fmt_comma_0f(deal_value[1])
                              ELSE None,
               !.next_step = IF actions # << >> THEN join("; ", Take(actions, 3)) ELSE None,
               !.summary = fallback_summary(text, source_type),
               !.sentiment = fallback_sentiment(text)]
    IN  data(re_matches(email_pattern, text, FALSE),
             re_search(name_email_pattern, text, TRUE),
             company(re_search(company_pattern, text, FALSE)),
             re_search(phone_pattern, text, FALSE),
             largest(re_findall(money_pattern, 3, text, FALSE)),
             fallback_actions(text, 1))


(***************************************************************************)
(* The inputs.  A transcript is up to MaxBlocks blocks of text of one      *)
(* family, in the order of the family and with repetitions, each block on  *)
(* lines of its own.  A response is what _parse_response makes of the text *)
(* the generative model returned.                                          *)
(***************************************************************************)
MaxBlocks == 3

\* the blocks of a transcript that is submitted twice
RepeatBlocks == 1

ChurnBlocks ==
    << "Cancel it, cancel it now",
       "Refund me",
       "This is unacceptable",
       "I am angry",
       "Thank you, I appreciate that it is fixed",
       "Get me a supervisor about my booking" >>

StaffBlocks ==
    << "CSR Jane: Thank you for calling, this is Jane\nCustomer: I don't want a voucher",
       "Supervisor Sarah: Hello, this is Sarah. Manager Bob Lee will help",
       "Agent Tom: this is Al, I understand. Call Manager Ann",
       "John Smith (john@acme.com) paid $1,500.00 at Acme Corp, phone 555-123-4567",
       "Supervisor Sarah: I will look at it" >>

MinutesBlocks ==
    << "We decided to refund the whole booking today. We will process the refund within three days.",
       "I am upset\nSorry, moving forward we should check bookings twice. Task: please send the refund confirmation email",
       "Our next meeting on 2024-02-01 at noon is a review\nI understand, I will follow up with the billing team tomorrow" >>

\* the texts of at most n blocks of the family, none before block b
RECURSIVE TextsFrom(_, _, _)
TextsFrom(family, b, n) ==
    IF n = 0 THEN {""}
    ELSE {""} \cup
         UNION { { IF rest = "" THEN family[k] ELSE family[k] \o "\n" \o rest :
                     rest \in TextsFrom(family, k, n - 1) } :
                 k \in b..Len(family) }

TextsOf(family, n) == TextsFrom(family, 1, n)

\* the requests of at most n blocks: the body of POST /analyze, context defaulting
\* to "customer_service"
RequestsOf(n) ==
    { [transcript |-> t, context |-> "customer_service"] :
        t \in TextsOf(ChurnBlocks, n) \cup TextsOf(StaffBlocks, n) \cup TextsOf(MinutesBlocks, n) }
    \cup { [transcript |-> t, context |-> "meeting"] : t \in TextsOf(MinutesBlocks, n) }

Requests == RequestsOf(MaxBlocks)

Responses ==
    { ExtractedData,
      [ExtractedData EXCEPT !.contact_name = "John Smith",
                            !.contact_email = "john@acme.com",
                            !.company_name = "Acme Corp",
                            !.deal_title = "Annual plan",
                            !.deal_value = Float(1500 * 100),
                            !.next_step = "Send the signed contract",
                            !.summary = "Customer asked about the annual plan",
                            !.sentiment = "negative"],
      [ExtractedData EXCEPT !.contact_name = "Sarah",
                            !.deal_value = Float(1000 * 100),
                            !.sentiment = "positive"],
      [ExtractedData EXCEPT !.contact_name = "",
                            !.deal_value = Float(0),
                            !.next_step = "",
                            !.sentiment = "neutral"],
      [ExtractedData EXCEPT !.deal_title = "Renewal",
                            !.deal_value = Float(500 * 100),
                            !.sentiment = "negative"],
      [ExtractedData EXCEPT !.deal_title = "Pilot",
                            !.sentiment = "neutral"] }

(***************************************************************************)
(* The state: the service singleton (ai_service), and the call of          *)
(* analyze_transcript in progress with its local variables.  When two      *)
(* calls run in two threads, pc .. result are those of the thread that     *)
(* runs and suspended holds those of the other thread.                     *)
(***************************************************************************)
VARIABLES
    _credentials_available,  \* ai_service._credentials_available
    _initialized,            \* ai_service._initialized
    _model,                  \* ai_service._model
    pc,                      \* the statement of analyze_transcript to run next
    transcript,              \* its argument
    context,                 \* its argument
    frame,                   \* its local variables
    result,                  \* what it returned
    previous,                \* history: << >>, or <<the call before>> when this call repeats it
    running,                 \* the thread that runs: 1 or 2
    suspended,               \* pc, transcript, context, frame and result of the other thread
    writer                   \* history: the thread that last wrote _initialized or _model, 0 for __init__

vars == << _credentials_available, _initialized, _model,
           pc, transcript, context, frame, result, previous,
           running, suspended, writer >>

service == << _credentials_available, _initialized, _model, writer >>

scheduler == << running, suspended >>

Unset == "<unset>"

EmptyFrame ==
    [extracted |-> Unset, sentiment_timeline |-> Unset, risks |-> Unset,
     insights |-> Unset, churn_prob |-> Unset, contacts |-> Unset, deals |-> Unset,
     tasks |-> Unset, summary |-> Unset, key_points |-> Unset, risk_level |-> Unset,
     actions |-> Unset, meeting_title |-> Unset, meeting_date |-> Unset,
     attendees |-> Unset, decisions |-> Unset, action_items |-> Unset,
     follow_ups |-> Unset, next_meeting |-> Unset]

\* AIExtractionService.__init__; crm_agent = CRMAgent(); no request yet
Init ==
    /\ _credentials_available \in BOOLEAN
    /\ _initialized = FALSE
    /\ _model = None
    /\ pc = "idle"
    /\ transcript = Unset
    /\ context = Unset
    /\ frame = EmptyFrame
    /\ result = Unset
    /\ previous = << >>
    /\ running = 1
    /\ suspended = [pc |-> "idle", transcript |-> Unset, context |-> Unset,
                    frame |-> EmptyFrame, result |-> Unset]
    /\ writer = 0

\* routes/agent.py: a request calls crm_agent.analyze_transcript(transcript, context)
Submit(text, ctx) ==
    /\ pc \in {"idle", "done"}
    /\ pc' = "extract"
    /\ transcript' = text
    /\ context' = ctx
    /\ frame' = EmptyFrame
    /\ result' = Unset
    /\ previous' = << >>
    /\ UNCHANGED << service, scheduler >>

\* a second request with the body of the one just answered
Resubmit ==
    /\ pc = "done"
    /\ pc' = "extract"
    /\ frame' = EmptyFrame
    /\ result' = Unset
    /\ previous' = << [extracted |-> frame.extracted, result |-> result] >>
    /\ UNCHANGED << service, scheduler, transcript, context >>

\* line 58 with no credentials: "not self._credentials_available" is true and
\* self.model is not evaluated
ExtractNoCredentials ==
    /\ pc = "extract"
    /\ ~_credentials_available
    /\ frame' = [frame EXCEPT !.extracted = _fallback_extraction(transcript, "call")]
    /\ pc' = "sentiment"
    /\ UNCHANGED << service, scheduler, transcript, context, result, previous >>

\* line 58, the model property fails to initialise Vertex AI (lines 71-74), or
\* has failed before: self.model is None
ExtractNoModel ==
    /\ pc = "extract"
    /\ _credentials_available
    /\ _model = None
    /\ _initialized' = TRUE
    /\ frame' = [frame EXCEPT !.extracted = _fallback_extraction(transcript, "call")]
    /\ pc' = "sentiment"
    /\ writer' = IF _initialized THEN writer ELSE running
    /\ UNCHANGED << _credentials_available, _model, scheduler,
                    transcript, context, result, previous >>

\* a model property that tests "self._model is None" alone and tries again
\* after a failure
ModelReady_retry ==
    /\ _credentials_available
    /\ _model' = "GenerativeModel"
    /\ _initialized' = TRUE
    /\ writer' = IF _model # None THEN writer ELSE running
    /\ UNCHANGED _credentials_available

\* what the model property leaves in _model when it sets it (lines 63-69), or finds it set
ModelReady ==
    /\ _credentials_available
    /\ _model # None \/ ~_initialized
    /\ _model' = "GenerativeModel"
    /\ _initialized' = TRUE
    /\ writer' = IF _model # None THEN writer ELSE running
    /\ UNCHANGED _credentials_available

\* line 58, the model answers and _parse_response makes a record of the answer
ExtractParsed(response) ==
    /\ pc = "extract"
    /\ ModelReady
    /\ frame' = [frame EXCEPT !.extracted = response]
    /\ pc' = "sentiment"
    /\ UNCHANGED << scheduler, transcript, context, result, previous >>

\* line 58 with an extract_from_text that lets the exception of
\* generate_content out: the call of analyze_transcript ends there
ExtractRaised_propagates ==
    /\ pc = "extract"
    /\ ModelReady
    /\ pc' = "raised"
    /\ UNCHANGED << scheduler, transcript, context, frame, result, previous >>

\* line 58, generate_content raises (lines 97-99)
ExtractRaised ==
    /\ pc = "extract"
    /\ ModelReady
    /\ frame' = [frame EXCEPT !.extracted = _fallback_extraction(transcript, "call")]
    /\ pc' = "sentiment"
    /\ UNCHANGED << scheduler, transcript, context, result, previous >>

\* one assignment of analyze_transcript: from at, set the locals and go to next
Step(at, next, new_frame) ==
    /\ pc = at
    /\ frame' = new_frame
    /\ pc' = next
    /\ UNCHANGED << service, scheduler, transcript, context, result, previous >>

\* line 61
SentimentTimeline ==
    Step("sentiment", "risks",
         [frame EXCEPT !.sentiment_timeline = _analyze_sentiment_timeline(transcript)])

\* line 64 followed by line 70: the score before the insights
Risks_then_churn ==
    Step("risks", "churn",
         [frame EXCEPT !.risks = _detect_risks(transcript, frame.extracted)])

\* line 64
Risks ==
    Step("risks", "insights",
         [frame EXCEPT !.risks = _detect_risks(transcript, frame.extracted)])

\* line 67
Insights ==
    Step("insights", "churn",
         [frame EXCEPT !.insights =
              _generate_insights(transcript, frame.extracted, frame.risks)])

\* line 70
ChurnScore ==
    Step("churn", "contacts",
         [frame EXCEPT !.churn_prob =
              _calculate_churn_probability(transcript, frame.sentiment_timeline)])

\* line 73 with a list of contacts that the agent keeps from call to call
Contacts_kept ==
    Step("contacts", "deals",
         [frame EXCEPT !.contacts =
              (IF previous = << >> THEN << >> ELSE previous[1].result.contacts_identified)
              \o _identify_contacts(transcript, frame.extracted)])

\* line 73
Contacts ==
    Step("contacts", "deals",
         [frame EXCEPT !.contacts = _identify_contacts(transcript, frame.extracted)])

\* line 76
Deals ==
    Step("deals", "tasks",
         [frame EXCEPT !.deals = _extract_deals(transcript, frame.extracted)])

\* line 79
Tasks ==
    Step("tasks", "summary",
         [frame EXCEPT !.tasks =
              _generate_tasks(transcript, frame.extracted, frame.insights)])

\* lines 82-84
Summary ==
    Step("summary", "key_points",
         [frame EXCEPT !.summary =
              _generate_executive_summary(transcript, frame.extracted,
                  frame.sentiment_timeline, frame.risks, frame.churn_prob)])

\* line 87
KeyPoints ==
    Step("key_points", "risk_level",
         [frame EXCEPT !.key_points = _extract_key_points(transcript, frame.extracted)])

\* line 90
RiskLevel ==
    Step("risk_level", "actions",
         [frame EXCEPT !.risk_level =
              _determine_risk_level(frame.churn_prob, frame.risks,
                                    frame.sentiment_timeline)])

\* line 93
RecommendedActions ==
    Step("actions", "minutes",
         [frame EXCEPT !.actions =
              _generate_recommended_actions(frame.insights, frame.risk_level,
                                            frame.churn_prob)])

\* lines 96-101
MeetingMinutes ==
    Step("minutes", "return",
         [frame EXCEPT
            !.meeting_title = _extract_meeting_metadata(transcript, context)[1],
            !.meeting_date = _extract_meeting_metadata(transcript, context)[2],
            !.attendees = _extract_attendees(frame.contacts),
            !.decisions = _extract_decisions(transcript),
            !.action_items = _extract_action_items(transcript, frame.tasks),
            !.follow_ups = _extract_follow_ups(transcript, frame.extracted),
            !.next_meeting = _extract_next_meeting(transcript)])

\* lines 103-121
AgentAnalysis(f) ==
    [summary |-> f.summary,
     key_points |-> f.key_points,
     sentiment_timeline |-> f.sentiment_timeline,
     risk_level |-> f.risk_level,
     churn_probability |-> f.churn_prob,
     insights |-> f.insights,
     recommended_actions |-> f.actions,
     contacts_identified |-> f.contacts,
     deals_identified |-> f.deals,
     tasks_to_create |-> f.tasks,
     meeting_title |-> f.meeting_title,
     meeting_date |-> f.meeting_date,
     attendees |-> f.attendees,
     decisions_made |-> f.decisions,
     action_items |-> f.action_items,
     follow_up_items |-> f.follow_ups,
     next_meeting |-> f.next_meeting]

Return ==
    /\ pc = "return"
    /\ result' = AgentAnalysis(frame)
    /\ pc' = "done"
    /\ UNCHANGED << service, scheduler, transcript, context, frame, previous >>

\* the statements of analyze_transcript
Analyze ==
    \/ ExtractNoCredentials
    \/ ExtractNoModel
    \/ \E response \in Responses : ExtractParsed(response)
    \/ ExtractRaised
    \/ SentimentTimeline
    \/ Risks
    \/ Insights
    \/ ChurnScore
    \/ Contacts
    \/ Deals
    \/ Tasks
    \/ Summary
    \/ KeyPoints
    \/ RiskLevel
    \/ RecommendedActions
    \/ MeetingMinutes
    \/ Return

Next ==
    \/ \E request \in Requests : Submit(request.transcript, request.context)
    \/ Analyze

Spec == Init /\ [][Next]_vars

\* the first request of a process that answers every request twice
FirstSubmit(request) ==
    /\ pc = "idle"
    /\ Submit(request.transcript, request.context)

NextRepeat ==
    \/ \E request \in RequestsOf(RepeatBlocks) : FirstSubmit(request)
    \/ Resubmit
    \/ Analyze

SpecRepeat == Init /\ [][NextRepeat]_vars

\* a switch that leaves the transcript where it is, as if the agent kept the
\* text it analyses in an attribute of the shared instance
Switch_shared_transcript ==
    /\ pc # "idle"
    /\ suspended' = [pc |-> pc, transcript |-> transcript, context |-> context,
                     frame |-> frame, result |-> result]
    /\ pc' = suspended.pc
    /\ transcript' = IF suspended.pc = "idle" THEN suspended.transcript
                                             ELSE transcript
    /\ context' = suspended.context
    /\ frame' = suspended.frame
    /\ result' = suspended.result
    /\ running' = 3 - running
    /\ UNCHANGED << service, previous >>

\* the thread that runs is suspended between two statements of
\* analyze_transcript and the other thread runs: each thread has its own
\* frame, the singletons crm_agent and ai_service are the same for both
Switch ==
    /\ pc # "idle"
    /\ suspended' = [pc |-> pc, transcript |-> transcript, context |-> context,
                     frame |-> frame, result |-> result]
    /\ pc' = suspended.pc
    /\ transcript' = suspended.transcript
    /\ context' = suspended.context
    /\ frame' = suspended.frame
    /\ result' = suspended.result
    /\ running' = 3 - running
    /\ UNCHANGED << service, previous >>

\* the requests that the two threads answer at the same time: that of
\* thread 1, that of thread 2
ConcurrentRequests ==
    << [transcript |-> ChurnBlocks[1] \o "\n" \o ChurnBlocks[2], context |-> "customer_service"],
       [transcript |-> StaffBlocks[2], context |-> "meeting"] >>

\* two requests, one in each thread, in every interleaving of the statements
NextConcurrent ==
    \/ FirstSubmit(ConcurrentRequests[running])
    \/ Analyze
    \/ Switch

SpecConcurrent == Init /\ [][NextConcurrent]_vars

\* the blocks of a transcript of marker words
MarkerMaxBlocks == 2

\* lines with the words that the score, the risk rules and the timeline look
\* for, a conversation of seven changes of sentiment, lines of 100 and of
\* 101 characters, and lines with words of two kinds around a blank line
MarkerBlocks ==
    << "Refund me",
       "This is the worst",
       "Never",
       "Keep the voucher",
       "I don't want it",
       "Please resolve it",
       "Thank you",
       "I appreciate it",
       "Get me a manager about my booking",
       "Ridiculous, ridiculous, ridiculous",
       "Cancel my flight, cancel it now, cancel",
       "The manager said unacceptable, unacceptable, unacceptable",
       "I am angry\nSorry\nI am upset\nSorry\nThis is terrible\nSorry\nI am angry",
       "I am angry that the agent kept me waiting on the line for forty minutes and then dropped the call ok",
       "I am sorry that the agent kept you waiting on the line for forty minutes and then dropped the call ok",
       "Sorry you are upset\n \nThank you, sorry about that" >>

MarkerRequests ==
    { [transcript |-> t, context |-> "customer_service"] :
        t \in TextsOf(MarkerBlocks, MarkerMaxBlocks) }

\* one request of marker words to a process that has answered none
NextMarkers ==
    \/ \E request \in MarkerRequests : FirstSubmit(request)
    \/ Analyze

SpecMarkers == Init /\ [][NextMarkers]_vars

(***************************************************************************)
(* Properties of the answers of analyze_transcript.                        *)
(***************************************************************************)
\* the call has returned: result holds its AgentAnalysis
Returned == pc = "done"

\* C1: the churn probability of every returned analysis lies in [0, 100],
\* whatever the transcript and the timeline computed from it.
C1_ChurnProbabilityInRange ==
    Returned => result.churn_probability >= 0 /\ result.churn_probability <= 100

\* an analysis whose score went over 100 before it was capped
C1_ScoreCapped ==
    /\ Returned
    /\ churn_score(transcript, result.sentiment_timeline) > 100
    /\ result.churn_probability = 100

\* C2: every returned analysis has at most 5 timeline points, 5 key points,
\* 6 recommended actions, 5 contacts, 5 decisions, 5 follow-ups and 8 action items.
C2_ListsCapped ==
    Returned =>
        /\ Len(result.sentiment_timeline) <= 5
        /\ Len(result.key_points) <= 5
        /\ Len(result.recommended_actions) <= 6
        /\ Len(result.contacts_identified) <= 5
        /\ Len(result.decisions_made) <= 5
        /\ Len(result.follow_up_items) <= 5
        /\ Len(result.action_items) <= 8

\* an analysis of a transcript whose sentiment changes more than five times
C2_TimelineCut ==
    /\ Returned
    /\ Len(timeline_loop(split(transcript, "\n"), 1, "neutral", << >>)) > 5
    /\ Len(result.sentiment_timeline) = 5

\* C3: the risk level is the first matching rung of the ladder on the churn
\* score and the number of risk flags (>70 or >=3 critical, >50 or >=2 high,
\* >30 or >=1 medium, else low), and no timeline given to the classifier
\* changes it.
C3_RiskLadder ==
    Returned =>
        LET churn == result.churn_probability
            flags == Len(frame.risks)
            rung == IF churn > 70 \/ flags >= 3 THEN "critical"
                    ELSE IF churn > 50 \/ flags >= 2 THEN "high"
                    ELSE IF churn > 30 \/ flags >= 1 THEN "medium"
                    ELSE "low"
        IN  /\ result.risk_level = rung
            /\ \A timeline \in {<< >>, result.sentiment_timeline,
                                << [sentiment |-> "negative"] >>} :
                   _determine_risk_level(churn, frame.risks, timeline) = rung

\* an analysis on a threshold of the ladder: a score of exactly 70 with one
\* flag and a timeline that is not empty is high, not critical
C3_OnThreshold ==
    /\ Returned
    /\ result.churn_probability = 70
    /\ Len(frame.risks) = 1
    /\ result.sentiment_timeline # << >>
    /\ result.risk_level = "high"

\* C4 as stated: the analysis of the empty transcript has churn probability
\* 50 and risk level low.
C4_EmptyTranscriptLow ==
    Returned /\ transcript = "" =>
        result.churn_probability = 50 /\ result.risk_level = "low"

\* C4, amended: the analysis of the empty transcript has churn probability 50
\* and risk level medium.
C4_EmptyTranscriptMedium ==
    Returned /\ transcript = "" =>
        result.churn_probability = 50 /\ result.risk_level = "medium"

\* the empty transcript analysed
C4_EmptyTranscriptAnalysed ==
    /\ Returned
    /\ transcript = ""
    /\ frame.risks = << >>
    /\ result.risk_level = "medium"

\* no word that raises a risk flag, adds to the churn score or takes from it
\* occurs in the transcript
NoMarkers ==
    \A word \in {"cancel", "refund", "never", "worst", "supervisor", "manager",
                 "unacceptable", "ridiculous", "voucher",
                 "thank", "appreciate", "resolve", "fixed"} :
        ~contains(lower(transcript), word)

\* C5 as stated: a transcript with no risk marker and no churn or relief
\* keyword has churn score 50, no risk flag and risk level medium.
C5_NoMarkersBaseline ==
    Returned /\ NoMarkers =>
        /\ result.churn_probability = 50
        /\ frame.risks = << >>
        /\ result.risk_level = "medium"

\* C5, amended: a transcript with no risk marker, no churn or relief keyword
\* and no negative point on its sentiment timeline has churn score 50, no risk
\* flag and risk level medium.
C5_NoMarkersNoNegativeBaseline ==
    Returned /\ NoMarkers /\ negative_count(result.sentiment_timeline) = 0 =>
        /\ result.churn_probability = 50
        /\ frame.risks = << >>
        /\ result.risk_level = "medium"

\* such a transcript, with a point on its timeline that is not negative
C5_QuietTranscript ==
    /\ Returned
    /\ NoMarkers
    /\ result.sentiment_timeline # << >>
    /\ negative_count(result.sentiment_timeline) = 0
    /\ result.churn_probability = 50

\* the structures of the analysis that C6 lists are empty
EmptyStructures ==
    /\ result.sentiment_timeline = << >>
    /\ result.insights = << >>
    /\ result.contacts_identified = << >>
    /\ result.deals_identified = << >>
    /\ result.tasks_to_create = << >>
    /\ result.key_points = << >>
    /\ result.decisions_made = << >>
    /\ result.action_items = << >>
    /\ result.follow_up_items = << >>
    /\ result.next_meeting = None

\* the extraction step returned no contact name, no deal title, no deal value,
\* no next step and a sentiment that is not negative
NothingExtracted ==
    /\ ~truthy_str(frame.extracted.contact_name)
    /\ ~truthy_str(frame.extracted.deal_title)
    /\ ~truthy_float(frame.extracted.deal_value)
    /\ ~truthy_str(frame.extracted.next_step)
    /\ frame.extracted.sentiment # "negative"

\* C6 as stated: the analysis of "" returns an empty timeline, no insights,
\* contacts, deals, tasks, key points, decisions, action items or follow-ups,
\* and no next meeting, in any context.
C6_EmptyTranscriptEmptyStructures ==
    Returned /\ transcript = "" => EmptyStructures

\* C6, amended: the analysis of "" returns these empty structures when the
\* extraction step returns no contact name, deal title, deal value or next
\* step and no negative sentiment, as the rule-based extraction does for "".
C6_EmptyTranscriptNothingExtracted ==
    Returned /\ transcript = "" /\ NothingExtracted => EmptyStructures

\* "" analysed in the context "meeting" with the rule-based extraction
C6_EmptyMeetingAnalysed ==
    /\ Returned
    /\ transcript = ""
    /\ context = "meeting"
    /\ ~_credentials_available
    /\ NothingExtracted
    /\ EmptyStructures

\* C7: a second call with the same transcript and context, whose extraction
\* step returns the same fields as that of the first, returns the same
\* analysis in every field.
C7_SameAnswer ==
    Returned /\ previous # << >> /\ previous[1].extracted = frame.extracted =>
        result = previous[1].result

\* a request answered twice from the same fields of the generative model, with
\* contacts and insights in the answer
C7_AnsweredTwice ==
    /\ Returned
    /\ previous # << >>
    /\ previous[1].extracted = frame.extracted
    /\ _model # None
    /\ transcript # ""
    /\ result.contacts_identified # << >>
    /\ result.insights # << >>
    /\ result = previous[1].result

\* C8: no two contacts of a returned analysis have the same name.
C8_ContactNamesDistinct ==
    Returned =>
        \A i, j \in 1..Len(result.contacts_identified) :
            i # j => result.contacts_identified[i].name # result.contacts_identified[j].name

\* an analysis where the primary contact is also matched as staff, and a staff
\* pattern matches a name twice
C8_DuplicatesFound ==
    /\ Returned
    /\ LET found == all_contacts(transcript, frame.extracted)
       IN  /\ Len(found) <= 5
           /\ \E j \in 2..Len(found) : found[j].name = found[1].name /\ found[1].role = "Customer"
           /\ \E i, j \in 2..Len(found) : i < j /\ found[i].name = found[j].name

\* C9: a transcript with "cancel" at least twice, "refund" at least once and
\* none of thank, appreciate, resolve, fixed has a churn score of at least 78
\* and risk level critical.
C9_CancelTwiceRefundOnce ==
    LET relief == \E word \in {"thank", "appreciate", "resolve", "fixed"} :
                      contains(lower(transcript), word)
    IN  (/\ Returned
         /\ count(lower(transcript), "cancel") >= 2
         /\ count(lower(transcript), "refund") >= 1
         /\ ~relief)
        => (result.churn_probability >= 78 /\ result.risk_level = "critical")

\* the transcript with just these words: the score is 78
C9_ExactlySeventyEight ==
    /\ Returned
    /\ count(lower(transcript), "cancel") = 2
    /\ count(lower(transcript), "refund") = 1
    /\ \A word \in {"thank", "appreciate", "resolve", "fixed"} :
           ~contains(lower(transcript), word)
    /\ result.churn_probability = 78
    /\ result.risk_level = "critical"

\* C10: the categories of the insights are the sub-sequence of risk, sentiment,
\* opportunity whose triggers hold: risk iff there is a risk flag, sentiment iff
\* the extracted sentiment is negative, opportunity iff the deal value is over
\* 1000: one opportunity at 1500, none at 500 or at 1000.
C10_InsightCategories ==
    Returned =>
        LET categories == [k \in 1..Len(result.insights) |-> result.insights[k].category]
            value == frame.extracted.deal_value
            opportunities == Cardinality({k \in 1..Len(categories) :
                                            categories[k] = "opportunity"})
        IN  /\ categories =
                 (IF Len(frame.risks) >= 1 THEN << "risk" >> ELSE << >>)
                 \o (IF frame.extracted.sentiment = "negative"
                     THEN << "sentiment" >> ELSE << >>)
                 \o (IF value # NoFloat /\ value[1] > 1000 * 100
                     THEN << "opportunity" >> ELSE << >>)
            /\ value = Float(1500 * 100) => opportunities = 1
            /\ value \in {Float(500 * 100), Float(1000 * 100)} => opportunities = 0

\* an analysis with the three insights
C10_ThreeInsights ==
    /\ Returned
    /\ Len(result.insights) = 3
    /\ frame.extracted.deal_value = Float(1500 * 100)

\* the names the staff patterns find in the transcript, those of one or two
\* letters left out as the code leaves them out
StaffNames ==
    LET staff == staff_of_patterns(transcript, 1, frame.extracted)
    IN  { staff[k].name : k \in 1..Len(staff) }

\* C11: when the extracted contact name is set, the contact at index 0 is that
\* name with role Customer; the contacts after it are names the staff patterns
\* found, other than the primary name, with role Staff, and all of them when
\* the cap of five leaves room; with John Smith extracted and Sarah the only
\* staff name found, the contacts are John Smith (Customer), Sarah (Staff).
C11_PrimaryContactFirst ==
    (Returned /\ truthy_str(frame.extracted.contact_name)) =>
        LET contacts == result.contacts_identified
            primary == frame.extracted.contact_name
        IN  /\ contacts # << >>
            /\ contacts[1].name = primary
            /\ contacts[1].role = "Customer"
            /\ \A k \in 2..Len(contacts) :
                   /\ contacts[k].role = "Staff"
                   /\ contacts[k].name \in StaffNames \ {primary}
            /\ Cardinality(StaffNames \ {primary}) <= 4 =>
                   StaffNames \ {primary} = { contacts[k].name : k \in 2..Len(contacts) }
            /\ (primary = "John Smith" /\ StaffNames = {"Sarah"}) =>
                   [k \in 1..Len(contacts) |-> << contacts[k].name, contacts[k].role >>]
                     = << << "John Smith", "Customer" >>, << "Sarah", "Staff" >> >>

\* John Smith extracted and Sarah found twice by the staff patterns: two
\* contacts, one of them Sarah
C11_CustomerThenSarah ==
    /\ Returned
    /\ StaffNames = {"Sarah"}
    /\ Len(staff_of_patterns(transcript, 1, frame.extracted)) >= 2
    /\ frame.extracted.contact_name = "John Smith"
    /\ Len(result.contacts_identified) = 2
    /\ result.contacts_identified[2].name = "Sarah"

\* C12: the extraction step always ends with a record of the fields of
\* ExtractedData: the fallback result when there are no credentials, when the
\* model could not be initialised and when generate_content raised, else what
\* _parse_response made of the answer; and the call of analyze_transcript goes
\* on with its next statement.
C12_ExtractionFailsOpen ==
    [][(pc = "extract" /\ pc' # "extract") =>
          /\ pc' = "sentiment"
          /\ DOMAIN frame'.extracted = DOMAIN ExtractedData
          /\ \/ frame'.extracted = _fallback_extraction(transcript, "call")
             \/ /\ _credentials_available
                /\ _model' # None
                /\ frame'.extracted \in Responses
          /\ (~_credentials_available \/ _model' = None) =>
                 frame'.extracted = _fallback_extraction(transcript, "call")]_vars

\* an analysis returned after generate_content raised: the model is there, the
\* fields are those of the fallback, with no contact, company or deal in them
C12_ReturnedAfterRaise ==
    /\ Returned
    /\ _model # None
    /\ transcript # ""
    /\ frame.extracted \notin Responses
    /\ frame.extracted = _fallback_extraction(transcript, "call")
    /\ frame.extracted.contact_name = None
    /\ frame.extracted.company_name = None
    /\ frame.extracted.deal_value = NoFloat

\* what analyze_transcript returns for a transcript and a context when its
\* extraction step returns extracted: the statements of lines 61-121, run one
\* after the other by one thread
analyze_transcript(text, ctx, extracted) ==
    LET sentiment_timeline == _analyze_sentiment_timeline(text)
        risks == _detect_risks(text, extracted)
        insights == _generate_insights(text, extracted, risks)
        churn_prob == _calculate_churn_probability(text, sentiment_timeline)
        contacts == _identify_contacts(text, extracted)
        tasks == _generate_tasks(text, extracted, insights)
        risk_level == _determine_risk_level(churn_prob, risks, sentiment_timeline)
        meeting_info == _extract_meeting_metadata(text, ctx)
    IN  [summary |-> _generate_executive_summary(text, extracted, sentiment_timeline,
                                                 risks, churn_prob),
         key_points |-> _extract_key_points(text, extracted),
         sentiment_timeline |-> sentiment_timeline,
         risk_level |-> risk_level,
         churn_probability |-> churn_prob,
         insights |-> insights,
         recommended_actions |-> _generate_recommended_actions(insights, risk_level, churn_prob),
         contacts_identified |-> contacts,
         deals_identified |-> _extract_deals(text, extracted),
         tasks_to_create |-> tasks,
         meeting_title |-> meeting_info[1],
         meeting_date |-> meeting_info[2],
         attendees |-> _extract_attendees(contacts),
         decisions_made |-> _extract_decisions(text),
         action_items |-> _extract_action_items(text, tasks),
         follow_up_items |-> _extract_follow_ups(text, extracted),
         next_meeting |-> _extract_next_meeting(text)]

\* every call that has returned, in the thread that runs or in the other one,
\* returned what a call alone returns for its transcript, its context and the
\* fields its extraction step returned
AnswersAsAlone ==
    /\ Returned =>
           result = analyze_transcript(transcript, context, frame.extracted)
    /\ suspended.pc = "done" =>
           suspended.result = analyze_transcript(suspended.transcript, suspended.context,
                                                 suspended.frame.extracted)

\* C13 as stated: under every interleaving of two calls each call returns
\* what it returns alone, and no call reads state another call wrote: the
\* extraction step of a call with credentials, which reads _initialized and
\* _model, finds them as __init__ or the call itself left them.
C13_NoStateShared ==
    /\ []AnswersAsAlone
    /\ [][(pc = "extract" /\ pc' # "extract" /\ running' = running
              /\ _credentials_available) =>
             writer \in {0, running}]_vars

\* C13: under every interleaving of two calls each call returns what
\* it returns alone for the fields its extraction step returned; _initialized
\* and _model of the shared ai_service are written by one call and read by
\* the other.
C13_AnswersAsAlone == AnswersAsAlone

\* both threads have returned, each with contacts of its own transcript, and
\* the thread that runs got the answer of a model the other thread initialised
C13_BothReturned ==
    /\ Returned
    /\ suspended.pc = "done"
    /\ transcript # suspended.transcript
    /\ result # suspended.result
    /\ writer # running
    /\ writer # 0
    /\ frame.extracted \in Responses \ {_fallback_extraction(transcript, "call")}

\* the statements of analyze_transcript in the order of lines 58-103
StageOrder ==
    << "extract", "sentiment", "risks", "insights", "churn", "contacts", "deals",
       "tasks", "summary", "key_points", "risk_level", "actions", "minutes",
       "return" >>

\* the order with the churn score before the insights
ScoreFirstOrder ==
    << "extract", "sentiment", "risks", "churn", "insights", "contacts", "deals",
       "tasks", "summary", "key_points", "risk_level", "actions", "minutes",
       "return" >>

\* a step of the call goes from one statement of the order to the next one:
\* a request enters at the first, the last one returns
Linear(order) ==
    pc' # pc =>
        \/ pc \in {"idle", "done"} /\ pc' = order[1]
        \/ \E i \in 1..(Len(order) - 1) : pc = order[i] /\ pc' = order[i + 1]
        \/ pc = order[Len(order)] /\ pc' = "done"

\* C14 as stated: the stages run in the order Extract, SentimentTimeline,
\* Risks, ChurnScore, Insights, Contacts, Deals, Tasks, Summary/KeyPoints,
\* RiskLevel, RecommendedActions, MeetingMinutes, assembly, each exactly once
\* and only after the stages listed before it
C14_ScoreBeforeInsights == [][Linear(ScoreFirstOrder)]_vars

\* C14: the stages run in one fixed linear order, each exactly once and only
\* after the stages before it: Extract, SentimentTimeline, Risks, Insights,
\* ChurnScore, Contacts, Deals, Tasks, Summary, KeyPoints, RiskLevel,
\* RecommendedActions, MeetingMinutes, assembly; no step changes a call's
\* transcript or context
C14_StagesInCodeOrder ==
    [][/\ Linear(StageOrder)
       /\ pc \notin {"idle", "done"} =>
              transcript' = transcript /\ context' = context]_vars

\* the insights of a churn transcript are computed and the score is not yet
C14_InsightsBeforeScore ==
    /\ pc = "churn"
    /\ frame.churn_prob = Unset
    /\ Len(frame.insights) > 0
    /\ Len(frame.risks) > 0

\* the places of the text, lower-cased, where the word starts; none of the
\* words counted by the score overlaps itself, so their number is str.count
Hits(text, word) ==
    LET StartsIn(low) ==
            { i \in 1..(Len(low) - Len(word) + 1) :
                  SubSeq(low, i, i + Len(word) - 1) = word }
    IN  Cardinality(StartsIn(lower(text)))

Bonus(cond, points) == IF cond THEN points ELSE 0

\* the points tagged negative among the given ones
NegativePoints(points) == { k \in DOMAIN points : points[k].sentiment = "negative" }

\* the weighted sum of C15 over the transcript and the returned timeline
WeightedScore(text, points) ==
    50 + 10 * Hits(text, "cancel") + 8 * Hits(text, "refund")
       + 5 * Hits(text, "unacceptable") + 7 * Hits(text, "worst")
       + 6 * Hits(text, "never")
       + Bonus(Hits(text, "voucher") > 0 /\ Hits(text, "don't want") > 0, 15)
       - Bonus(Hits(text, "thank") > 0, 5)
       - Bonus(Hits(text, "appreciate") > 0, 5)
       - Bonus(Hits(text, "resolve") > 0 \/ Hits(text, "fixed") > 0, 10)
       + 8 * Cardinality(NegativePoints(points))

Clamp(x) == IF x < 0 THEN 0 ELSE IF x > 100 THEN 100 ELSE x

\* C15: the returned churn probability is the weighted sum clamped to
\* [0, 100]: 50, plus 10, 8, 5, 7 and 6 per occurrence of cancel, refund,
\* unacceptable, worst and never, plus 15 when voucher and don't want both
\* occur, minus 5 for thank, minus 5 for appreciate, minus 10 for resolve or
\* fixed, plus 8 per negative point of the returned timeline of at most five
C15_ChurnScoreFormula ==
    Returned =>
        /\ Len(result.sentiment_timeline) <= 5
        /\ result.churn_probability =
               Clamp(WeightedScore(transcript, result.sentiment_timeline))

\* seven changes of sentiment, four of them negative, and a declined voucher:
\* the three negative points kept in the timeline are counted
C15_CutTimelineCounted ==
    /\ Returned
    /\ Cardinality(NegativePoints(_analyze_sentiment_timeline_uncut(transcript))) = 4
    /\ Hits(transcript, "voucher") > 0
    /\ result.churn_probability = 50 + 3 * 8

AnyHit(line, words) == \E w \in words : Hits(line, w) > 0

\* the class of a line, the first of negative, empathetic, positive that has
\* one of its words in the line
ClassOf(line) ==
    IF AnyHit(line, {"angry", "upset", "ridiculous", "unacceptable", "terrible", "worst"})
    THEN "negative"
    ELSE IF AnyHit(line, {"apologize", "sorry", "understand", "help"})
    THEN "empathetic"
    ELSE IF AnyHit(line, {"thank", "appreciate", "great", "excellent"})
    THEN "positive"
    ELSE "neutral"

\* the lines of the text that are not blank, in order
SpokenLines(text) ==
    LET NotBlank(line) == strip(line) # ""
    IN  SelectSeq(split(text, "\n"), NotBlank)

\* the spoken lines whose class is not that of the spoken line before them,
\* neutral before the first
ChangeLines(text) ==
    LET spoken == SpokenLines(text)
        Before(k) == IF k = 1 THEN "neutral" ELSE ClassOf(spoken[k - 1])
        changes == { k \in 1..Len(spoken) : ClassOf(spoken[k]) # Before(k) }
        RECURSIVE InOrder(_)
        InOrder(k) ==
            IF k > Len(spoken) THEN << >>
            ELSE (IF k \in changes THEN << spoken[k] >> ELSE << >>) \o InOrder(k + 1)
    IN  InOrder(1)

PointLabels == << "Point 1", "Point 2", "Point 3", "Point 4", "Point 5" >>

\* C16: the returned timeline holds the change points only, at most the
\* first five of them, labelled Point 1..n in order: point k has the class of
\* the k-th line whose class (negative, else empathetic, else positive, else
\* neutral) differs from the class of the line before it, no two adjacent
\* points share a sentiment and the first point is not neutral
C16_ChangePointsOnly ==
    Returned =>
        LET timeline == result.sentiment_timeline
            changes == ChangeLines(transcript)
        IN  /\ Len(timeline) = (IF Len(changes) > 5 THEN 5 ELSE Len(changes))
            /\ \A k \in 1..Len(timeline) :
                  /\ timeline[k].stage = PointLabels[k]
                  /\ timeline[k].sentiment = ClassOf(changes[k])
            /\ \A k \in 1..(Len(timeline) - 1) :
                  timeline[k].sentiment # timeline[k + 1].sentiment
            /\ Len(timeline) > 0 => timeline[1].sentiment # "neutral"

\* eight change points, the last after a blank line and on a line with words
\* of two classes: five points are returned, the last three changes are dropped
C16_EightChangesFiveKept ==
    /\ Returned
    /\ Len(ChangeLines(transcript)) = 8
    /\ Len(SpokenLines(transcript)) < Len(split(transcript, "\n"))
    /\ Len(result.sentiment_timeline) = 5
    /\ result.sentiment_timeline[5].stage = "Point 5"
    /\ result.sentiment_timeline[5].description = "This is terrible"

\* C17 as stated: the text stored in every point of the returned timeline is
\* at most 100 characters long
C17_DescriptionAtMost100 ==
    Returned =>
        \A k \in DOMAIN result.sentiment_timeline :
            Len(result.sentiment_timeline[k].description) <= 100

\* C17: the text stored in a point of the returned timeline is the line
\* itself when the line has at most 100 characters, and otherwise the first
\* 100 characters of the line followed by three dots: at most 103 characters
C17_DescriptionAtMost103 ==
    Returned =>
        \A k \in DOMAIN result.sentiment_timeline :
            LET description == result.sentiment_timeline[k].description
                line == ChangeLines(transcript)[k]
            IN  /\ Len(description) <= 103
                /\ Len(line) <= 100 => description = line
                /\ Len(line) > 100 =>
                       /\ Len(description) = 103
                       /\ SubSeq(description, 1, 100) = SubSeq(line, 1, 100)
                       /\ SubSeq(description, 101, 103) = "..."

\* a line of 100 characters stored whole and a line of 101 stored as 103
C17_LineOf101Stored ==
    /\ Returned
    /\ Len(result.sentiment_timeline) = 2
    /\ Len(ChangeLines(transcript)[1]) = 100
    /\ Len(result.sentiment_timeline[1].description) = 100
    /\ Len(ChangeLines(transcript)[2]) = 101
    /\ Len(result.sentiment_timeline[2].description) = 103

\* the four flags in the order of the rules
RuleOrder == << RISK_CHURN, RISK_ESCALATION, RISK_NEGATIVE, RISK_DISRUPTION >>

RiskFlags == { RuleOrder[k] : k \in DOMAIN RuleOrder }

\* the flags of the set listed in rule order
Listed(flags) ==
    LET Raised(flag) == flag \in flags
    IN  SelectSeq(RuleOrder, Raised)

\* the flags whose rule holds of the text
FlagsOf(text) ==
    { flag \in RiskFlags :
        \/ /\ flag = RISK_CHURN
           /\ AnyHit(text, {"cancel", "refund", "never again", "worst"})
        \/ /\ flag = RISK_ESCALATION
           /\ AnyHit(text, {"supervisor", "manager"})
        \/ /\ flag = RISK_NEGATIVE
           /\ (Hits(text, "unacceptable") > 2 \/ Hits(text, "ridiculous") > 2)
        \/ /\ flag = RISK_DISRUPTION
           /\ Hits(text, "cancel") > 0
           /\ AnyHit(text, {"flight", "booking"}) }

\* the lists of flags that the marker transcripts get
DetectedLists ==
    { _detect_risks(t, ExtractedData) : t \in TextsOf(MarkerBlocks, MarkerMaxBlocks) }

\* the statement of line 64 has just run
RisksDetected == pc = "insights"

\* C18 as stated: each of the 16 subsets of the four flags is the list, in
\* rule order, that the risk rules return for some transcript
C18_AnySubsetMayFire ==
    \A flags \in SUBSET RiskFlags : Listed(flags) \in DetectedLists

\* C18: the list of risks is the list, in rule order, of the flags whose
\* rule holds of the transcript; the disruption flag is never raised without
\* the churn flag, and each of the 12 subsets that have the churn flag
\* whenever they have the disruption flag is the list of some transcript
C18_DisruptionImpliesChurn ==
    /\ RisksDetected =>
          /\ frame.risks = Listed(FlagsOf(transcript))
          /\ (\E k \in DOMAIN frame.risks : frame.risks[k] = RISK_DISRUPTION)
                 => frame.risks[1] = RISK_CHURN
    /\ pc = "idle" =>
          DetectedLists =
              { Listed(flags) : flags \in { s \in SUBSET RiskFlags :
                                              RISK_DISRUPTION \in s => RISK_CHURN \in s } }

\* the four rules fire on one transcript, another one names a booking and
\* a manager without a cancellation and gets the escalation flag alone
C18_AllFourFlags ==
    /\ pc = "insights"
    /\ frame.risks = RuleOrder
    /\ _detect_risks(MarkerBlocks[9], ExtractedData) = << RISK_ESCALATION >>
    /\ Hits(MarkerBlocks[9], "booking") > 0

\* the part occurs in the text, letter for letter
Occurs(text, part) ==
    \E i \in 1..Len(text) :
        /\ i + Len(part) - 1 <= Len(text)
        /\ SubSeq(text, i, i + Len(part) - 1) = part

CriticalLine(summary) == Occurs(summary, "CRITICAL: ")
WarningLine(summary) == Occurs(summary, "WARNING: ")

\* C19 as stated: the summary has the CRITICAL line whenever churn >= 70,
\* the WARNING line whenever 50 <= churn < 70 and neither below 50
C19_LinesFromSeventyAndFifty ==
    Returned =>
        /\ result.churn_probability >= 70 => CriticalLine(result.summary)
        /\ (result.churn_probability >= 50 /\ result.churn_probability < 70)
               => WarningLine(result.summary)
        /\ result.churn_probability < 50 =>
               ~CriticalLine(result.summary) /\ ~WarningLine(result.summary)

\* C19: the summary has the CRITICAL line exactly when churn > 70, the
\* WARNING line exactly when 50 < churn <= 70, and neither when churn <= 50;
\* the risk level switches on churn at the same two thresholds: it is
\* critical exactly when the CRITICAL line is there or three flags are
\* raised, and otherwise high exactly when the WARNING line is there or two
\* flags are raised
C19_LinesAboveSeventyAndFifty ==
    Returned =>
        /\ CriticalLine(result.summary) <=> result.churn_probability > 70
        /\ WarningLine(result.summary) <=>
               (result.churn_probability > 50 /\ result.churn_probability <= 70)
        /\ result.risk_level = "critical" <=>
               (CriticalLine(result.summary) \/ Len(frame.risks) >= 3)
        /\ result.risk_level = "high" <=>
               /\ result.risk_level # "critical"
               /\ (WarningLine(result.summary) \/ Len(frame.risks) >= 2)

\* a churn probability of exactly 70: the WARNING line, not the CRITICAL one
C19_ExactlySeventyWarned ==
    /\ Returned
    /\ result.churn_probability = 70
    /\ WarningLine(result.summary)
    /\ ~CriticalLine(result.summary)
    /\ Occurs(result.summary, "WARNING: 70% churn probability")

\* the item is one made from a match in the text
FromText(item) ==
    /\ item.owner = "TBD"
    /\ item.due_date = "TBD"
    /\ item.priority = "medium"
    /\ item.status = "pending"

\* the item is the task converted
FromTask(item, task) ==
    /\ item.action = task.title
    /\ item.owner = task.assigned_to
    /\ item.due_date = task.due_date
    /\ item.priority = task.priority
    /\ item.status = "pending"

\* the first three matches of the k-th action pattern in the text
FirstThree(k, text) ==
    Take(re_findall(action_patterns[k].segs, action_patterns[k].group, text, TRUE), 3)

\* C20 as stated: the action items are the tasks converted one to one in
\* task order, followed by at most 3 items made from the text, at most 8 in all
C20_AtMostThreeFromText ==
    Returned =>
        LET items == result.action_items
            tasks == result.tasks_to_create
        IN  /\ Len(items) <= 8
            /\ Len(items) >= Len(tasks)
            /\ \A k \in 1..Len(tasks) : FromTask(items[k], tasks[k])
            /\ \A k \in (Len(tasks) + 1)..Len(items) : FromText(items[k])
            /\ Len(items) - Len(tasks) <= 3

\* C20: the action items are the tasks converted one to one in task order
\* (owner, due date and priority copied, status pending), followed by the
\* first three matches of the first text pattern and then the first three of
\* the second (owner TBD, due date TBD, priority medium): at most 6 items
\* from the text, cut so that the list has at most 8 entries
C20_ThreePerPattern ==
    Returned =>
        LET items == result.action_items
            tasks == result.tasks_to_create
            found == FirstThree(1, transcript) \o FirstThree(2, transcript)
        IN  /\ Len(items) <= 8
            /\ Len(items) = (IF Len(tasks) + Len(found) > 8 THEN 8
                             ELSE Len(tasks) + Len(found))
            /\ \A k \in 1..Len(tasks) : FromTask(items[k], tasks[k])
            /\ \A k \in (Len(tasks) + 1)..Len(items) :
                  /\ FromText(items[k])
                  /\ items[k].action = strip(found[k - Len(tasks)])
            /\ Len(items) - Len(tasks) <= 6

\* three tasks and three matches of each pattern: five items from the text
\* are kept and the sixth is cut
C20_FiveFromText ==
    /\ Returned
    /\ Len(result.tasks_to_create) = 3
    /\ Len(FirstThree(1, transcript)) = 3
    /\ Len(FirstThree(2, transcript)) = 3
    /\ Len(result.action_items) = 8
    /\ FromText(result.action_items[4])
    /\ FromText(result.action_items[8])

EscalationActions ==
    << ":alarm: Immediate: Assign to senior account manager",
       ":phone: Schedule follow-up call within 24 hours" >>

CompensationActions ==
    << ":money: Consider additional compensation/credits",
       ":people: Escalate to customer success team" >>

HousekeepingActions ==
    << ":email: Send personalized follow-up email",
       ":chart: Monitor customer satisfaction metrics",
       ":check: Document issue in CRM with full context" >>

\* the actions in the order they are appended for a risk level and a score
ActionsBuilt(risk_level, churn) ==
    (IF risk_level \in {"critical", "high"} THEN EscalationActions ELSE << >>)
    \o (IF churn > 60 THEN CompensationActions ELSE << >>)
    \o HousekeepingActions

FirstSix(s) == IF Len(s) > 6 THEN SubSeq(s, 1, 6) ELSE s

\* C21: the recommended actions are the first six of: the two escalation
\* actions iff the returned risk level is critical or high, the two
\* compensation actions iff the returned churn probability is above 60, then
\* the three housekeeping actions; the cut keeps the earliest
C21_FirstSixActions ==
    Returned =>
        result.recommended_actions =
            FirstSix(ActionsBuilt(result.risk_level, result.churn_probability))

\* seven actions are built and the last one, the third housekeeping action,
\* is cut
C21_SeventhActionCut ==
    /\ Returned
    /\ result.churn_probability > 60
    /\ Len(ActionsBuilt(result.risk_level, result.churn_probability)) = 7
    /\ Len(result.recommended_actions) = 6
    /\ result.recommended_actions[1] = EscalationActions[1]
    /\ result.recommended_actions[6] = HousekeepingActions[2]

\* title, priority, due date and owner of the tasks of a list, in order
TaskHeads(tasks) ==
    [k \in 1..Len(tasks) |->
        << tasks[k].title, tasks[k].priority, tasks[k].due_date, tasks[k].assigned_to >>]

\* a next step is set: a string that is not empty
NextStepSet == frame.extracted.next_step \notin {None, ""}

RiskInsight == \E k \in DOMAIN result.insights : result.insights[k].category = "risk"

\* C22: the tasks are, in this order, the next-step task (high, 2 days,
\* Account Manager, described by the next step) iff a next step is set, the
\* retention task (urgent, 24 hours, Senior Account Manager) iff there is an
\* insight of category risk, the refund task (high, 3 days, Finance Team) iff
\* the transcript contains refund: at most three
C22_TasksInOrder ==
    Returned =>
        /\ TaskHeads(result.tasks_to_create) =
               (IF NextStepSet
                THEN << << "Follow-up Action Required", "high", "2 days", "Account Manager" >> >>
                ELSE << >>)
               \o (IF RiskInsight
                   THEN << << "Customer Retention Action", "urgent", "24 hours",
                              "Senior Account Manager" >> >>
                   ELSE << >>)
               \o (IF Hits(transcript, "refund") > 0
                   THEN << << "Process Refund", "high", "3 days", "Finance Team" >> >>
                   ELSE << >>)
        /\ Len(result.tasks_to_create) <= 3
        /\ NextStepSet => result.tasks_to_create[1].description = frame.extracted.next_step

\* the three tasks of a refund with a next step from the model
C22_ThreeTasks ==
    /\ Returned
    /\ frame.extracted.next_step = "Send the signed contract"
    /\ Len(result.tasks_to_create) = 3
    /\ result.tasks_to_create[1].description = "Send the signed contract"
    /\ result.tasks_to_create[3].title = "Process Refund"

\* the extraction has a deal title: a string that is not empty
HasDealTitle == frame.extracted.deal_title \notin {None, ""}

\* the extraction has a deal value: a number other than zero
HasDealValue == frame.extracted.deal_value \notin {NoFloat, Float(0)}

\* C23: at most one deal is returned, and one exactly when the extraction
\* has a deal title or a deal value; its value is the extracted value, or 0
\* when no value was extracted
C23_OneDealAtMost ==
    Returned =>
        /\ Len(result.deals_identified) <= 1
        /\ Len(result.deals_identified) = 1 <=> (HasDealTitle \/ HasDealValue)
        /\ \A k \in DOMAIN result.deals_identified :
              result.deals_identified[k].value =
                  (IF HasDealValue THEN frame.extracted.deal_value[1] ELSE 0)

\* a deal title without a value: one deal of value 0
C23_TitleWithoutValue ==
    /\ Returned
    /\ frame.extracted.deal_title = "Pilot"
    /\ frame.extracted.deal_value = NoFloat
    /\ Len(result.deals_identified) = 1
    /\ result.deals_identified[1].title = "Pilot"
    /\ result.deals_identified[1].value = 0

\* the scores that max(0, min(100, score)) can return
MaxScore == 100

\* a call about to run line 90 with any score and any list of flags in its
\* locals
InitLadder ==
    /\ _credentials_available = FALSE
    /\ _initialized = FALSE
    /\ _model = None
    /\ pc = "risk_level"
    /\ transcript = Unset
    /\ context = Unset
    /\ \E churn_prob \in 0..MaxScore, flags \in SUBSET RiskFlags :
          frame = [EmptyFrame EXCEPT !.churn_prob = churn_prob,
                                     !.risks = Listed(flags),
                                     !.sentiment_timeline = << >>]
    /\ result = Unset
    /\ previous = << >>
    /\ running = 1
    /\ suspended = [pc |-> "idle", transcript |-> Unset, context |-> Unset,
                    frame |-> EmptyFrame, result |-> Unset]
    /\ writer = 0

NextLadder == RiskLevel

SpecLadder == InitLadder /\ [][NextLadder]_vars

\* low < medium < high < critical
Rank(level) ==
    CASE level = "low" -> 1
      [] level = "medium" -> 2
      [] level = "high" -> 3
      [] level = "critical" -> 4

\* C24: the level computed for a score and a list of flags is not above the
\* level of any higher score with the same flags, nor above the level of the
\* same score with any longer list of flags
C24_LadderMonotonic ==
    pc = "actions" =>
        /\ \A higher \in frame.churn_prob..MaxScore :
              Rank(_determine_risk_level(higher, frame.risks, frame.sentiment_timeline))
                  >= Rank(frame.risk_level)
        /\ \A flags \in SUBSET RiskFlags :
              Cardinality(flags) >= Len(frame.risks) =>
                  Rank(_determine_risk_level(frame.churn_prob, Listed(flags),
                                             frame.sentiment_timeline))
                      >= Rank(frame.risk_level)

\* a score of 30 without flags is low; one more point, or one flag, lifts it
C24_LowThenMedium ==
    /\ pc = "actions"
    /\ frame.churn_prob = 30
    /\ frame.risks = << >>
    /\ frame.risk_level = "low"
    /\ _determine_risk_level(31, << >>, << >>) = "medium"
    /\ _determine_risk_level(30, << RISK_CHURN >>, << >>) = "medium"

\* C25: the returned churn probability is never below 30, and the risk level
\* is low only with a churn probability of exactly 30 and no risk flag
C25_NeverBelowThirty ==
    Returned =>
        /\ result.churn_probability >= 30
        /\ result.risk_level = "low" =>
               /\ result.churn_probability = 30
               /\ frame.risks = << >>

\* thanks, appreciation and a fix, nothing else: 50 - 5 - 5 - 10, level low
C25_AllReliefs ==
    /\ Returned
    /\ Hits(transcript, "thank") > 0
    /\ Hits(transcript, "appreciate") > 0
    /\ Hits(transcript, "fixed") > 0
    /\ result.churn_probability = 30
    /\ result.risk_level = "low"

\* the action is on the list
Recommended(action) ==
    \E k \in DOMAIN result.recommended_actions : result.recommended_actions[k] = action

\* C26: a churn probability above 60 comes with risk level high or critical,
\* so the compensation actions are never recommended without the two
\* escalation actions before them; the list has 3, 5 or 6 actions, and the
\* third housekeeping action, Document issue in CRM, is on it exactly when
\* the churn probability is at most 60
C26_CompensationAfterEscalation ==
    Returned =>
        /\ result.churn_probability > 60 => result.risk_level \in {"high", "critical"}
        /\ Recommended(CompensationActions[1]) =>
               /\ SubSeq(result.recommended_actions, 1, 2) = EscalationActions
               /\ SubSeq(result.recommended_actions, 3, 4) = CompensationActions
        /\ Len(result.recommended_actions) \in {3, 5, 6}
        /\ Recommended(HousekeepingActions[3]) <=> result.churn_probability <= 60

\* a churn probability of exactly 60: five actions, the last one Document
\* issue in CRM
C26_ExactlySixty ==
    /\ Returned
    /\ result.churn_probability = 60
    /\ result.risk_level = "high"
    /\ Len(result.recommended_actions) = 5
    /\ result.recommended_actions[5] = HousekeepingActions[3]

\* the titles of the tasks in list order
TaskTitles == [k \in DOMAIN result.tasks_to_create |-> result.tasks_to_create[k].title]

\* C27: a task list with the refund task has the retention task before it: a
\* transcript that contains refund raises the churn flag, so there is an
\* insight of category risk, so the retention task is created
C27_RetentionBeforeRefund ==
    Returned =>
        /\ contains(lower(transcript), "refund") =>
               /\ \E k \in DOMAIN frame.risks : frame.risks[k] = RISK_CHURN
               /\ RiskInsight
        /\ \A k \in DOMAIN TaskTitles :
               TaskTitles[k] = "Process Refund" =>
                   \E j \in 1..(k - 1) : TaskTitles[j] = "Customer Retention Action"

\* refund is the only risk word of the transcript: the churn flag alone, and
\* the two tasks
C27_RefundAlone ==
    /\ Returned
    /\ transcript = "Refund me"
    /\ frame.risks = << RISK_CHURN >>
    /\ TaskTitles = << "Customer Retention Action", "Process Refund" >>

\* C28: stage and status of a deal agree on cancellation: the stage is
\* Cancelled/Refunded iff the status is Refunded or Cancelled; and with both
\* refund and cancel in the transcript the status is Refunded
C28_StageAgreesWithStatus ==
    Returned =>
        \A k \in DOMAIN result.deals_identified :
            LET deal == result.deals_identified[k]
            IN  /\ deal.stage = "Cancelled/Refunded" <=> deal.status \in {"Refunded", "Cancelled"}
                /\ (Hits(transcript, "refund") > 0 /\ Hits(transcript, "cancel") > 0)
                       => deal.status = "Refunded"

\* a deal of a transcript with both words, cancel first: Refunded
C28_RefundOverCancel ==
    /\ Returned
    /\ transcript = "Cancel it, cancel it now\nRefund me"
    /\ Len(result.deals_identified) = 1
    /\ result.deals_identified[1].stage = "Cancelled/Refunded"
    /\ result.deals_identified[1].status = "Refunded"

\* no text is on the list twice
NoRepeat(list) == \A i, j \in DOMAIN list : list[i] = list[j] => i = j

\* every match of every pattern that is longer than 15 after strip(), with
\* its bullet, in pattern order and then in text order: none left out
RECURSIVE Candidates(_, _, _)
Candidates(patterns, p, text) ==
    IF p > Len(patterns) THEN << >>
    ELSE LET Long(match) == Len(strip(match)) > 15
             Bulleted(kept) == [k \in 1..Len(kept) |-> BULLET \o strip(kept[k])]
         IN  Bulleted(SelectSeq(re_findall(patterns[p].segs, patterns[p].group, text, TRUE),
                                Long))
             \o Candidates(patterns, p + 1, text)

\* C29 as stated: the decisions and the follow-ups never hold the same item
\* text twice: a candidate matched again after it was added is skipped
C29_NoItemTwice ==
    Returned =>
        /\ NoRepeat(result.decisions_made)
        /\ NoRepeat(result.follow_up_items)

\* C29: the decisions and the follow-ups are the first five of all
\* candidates (the follow-ups after the next step), repeats included; the
\* test "item not in items" compares the text without its bullet with the
\* stored texts, which carry it, and skips nothing
C29_RepeatsKept ==
    Returned =>
        /\ result.decisions_made = Take(Candidates(decision_patterns, 1, transcript), 5)
        /\ result.follow_up_items =
               Take((IF NextStepSet THEN << BULLET \o frame.extracted.next_step >>
                     ELSE << >>)
                    \o Candidates(follow_up_patterns, 1, transcript), 5)

\* the same sentences said twice: each decision is listed twice
C29_DecisionTwice ==
    /\ Returned
    /\ transcript = MinutesBlocks[1] \o "\n" \o MinutesBlocks[1]
    /\ result.decisions_made =
           << BULLET \o "refund the whole booking today",
              BULLET \o "refund the whole booking today",
              BULLET \o "process the refund within three days",
              BULLET \o "process the refund within three days",
              BULLET \o "the whole booking today" >>

\* the extraction step of the call returned the fallback extraction
FallbackReturned == frame'.extracted = _fallback_extraction(transcript, "call")

\* C30: the model is initialised at most once. Once an access to the model
\* has failed (_initialized set, _model unset) both stay as they are and every
\* later extract_from_text returns the fallback extraction; without
\* credentials the model is never set and every extract_from_text returns
\* the fallback extraction; a model that is set is never set again
C30_InitialisedOnce ==
    [][/\ _initialized => _initialized'
       /\ _model # None => _model' = _model
       /\ (_initialized /\ _model = None) =>
              /\ _model' = None
              /\ pc = "extract" => FallbackReturned
       /\ ~_credentials_available =>
              /\ _model' = None
              /\ pc = "extract" => FallbackReturned]_vars

\* the second of two calls with credentials has passed its extraction step
\* with the fallback extraction, as the first did: the model is still unset
C30_SecondCallFallsBack ==
    /\ previous # << >>
    /\ pc = "sentiment"
    /\ _credentials_available
    /\ _initialized
    /\ _model = None
    /\ previous[1].extracted = _fallback_extraction(transcript, "call")
    /\ frame.extracted = _fallback_extraction(transcript, "call")

=============================================================================
